---- MODULE Spec2Model ----
(***************************************************************************)
(* Model of the POST /api/products handler create_product                  *)
(* (src/Code Review & Debugging/create_product.py).                        *)
(*                                                                         *)
(* Each request is served by one invocation of create_product.  The        *)
(* invocations run concurrently; every step that touches the database is   *)
(* one action.  Strings are sequences of one-character strings so that     *)
(* strip(), upper() and Decimal(str(..)) are computed, not assumed.        *)
(* The storage layer (Product, Inventory, Warehouse, db.session) is not    *)
(* part of the source file; it is modelled from the specification: a       *)
(* unique constraint on Product.sku, foreign keys on Inventory, and a      *)
(* unit of work with add / flush / commit / rollback per invocation.       *)
(***************************************************************************)
EXTENDS Integers, Sequences, FiniteSets, TLC

VARIABLES
    pc,         \* pc[p]: position of invocation p inside create_product
    data,       \* data[p]: the decoded request body (request.get_json())
    price,      \* price[p]: the local variable price (a Decimal)
    product,    \* product[p]: the local variable product ({} until built)
    session,    \* session[p]: the unit of work db.session of invocation p
    e,          \* e[p]: the exception bound by the except clause of line 65
    response,   \* response[p]: the (body, status) pair returned
    products,   \* committed rows of the Product table
    inventory,  \* committed rows of the Inventory table
    nextId,     \* next value of the Product primary-key sequence
    calls       \* number of invocations started so far

vars == <<pc, data, price, product, session, e, response,
          products, inventory, nextId, calls>>

\* The concurrent request handlers.
Procs == {"p1", "p2"}

\* Bound on the number of invocations started in one behaviour.
MaxCalls == 3

\* Rows of the Warehouse table; never written by this flow.
Warehouses == {1, 2}

-----------------------------------------------------------------------------
(* Strings *)

\* A string is the sequence of its characters, each a one-character string.
\* A character that a string constant of this language cannot hold is
\* written by its code point, as in "U+2003".

LowerLetters == <<"a","b","c","d","e","f","g","h","i","j","k","l","m",
                  "n","o","p","q","r","s","t","u","v","w","x","y","z">>
UpperLetters == <<"A","B","C","D","E","F","G","H","I","J","K","L","M",
                  "N","O","P","Q","R","S","T","U","V","W","X","Y","Z">>
Digits == <<"0","1","2","3","4","5","6","7","8","9">>

\* The characters str.strip() removes, those with str.isspace(): U+0009 to
\* U+000D, U+001C to U+001F, U+0020, U+0085, U+00A0, U+1680, U+2000 to
\* U+200A, U+2028, U+2029, U+202F, U+205F and U+3000.
Whitespace ==
    {"\t", "\n", "", "\f", "\r", "", "", "", "", " ", "", " ", " ",
     "U+2000", "U+2001", "U+2002", "U+2003", "U+2004", "U+2005", "U+2006",
     "U+2007", "U+2008", "U+2009", "U+200A", "U+2028", "U+2029", "U+202F",
     "U+205F", "U+3000"}

\* str.upper() of the cased characters outside a-z, as pairs <<c, c.upper()>>
\* (Unicode 14).  The upper case of one character may be several
\* characters.
UpperPairs ==
    {<<"µ", <<"Μ">>>>, <<"ß", <<"S", "S">>>>, <<"à", <<"À">>>>,
     <<"á", <<"Á">>>>, <<"â", <<"Â">>>>, <<"ã", <<"Ã">>>>,
     <<"ä", <<"Ä">>>>, <<"å", <<"Å">>>>, <<"æ", <<"Æ">>>>,
     <<"ç", <<"Ç">>>>, <<"è", <<"È">>>>, <<"é", <<"É">>>>,
     <<"ê", <<"Ê">>>>, <<"ë", <<"Ë">>>>, <<"ì", <<"Ì">>>>,
     <<"í", <<"Í">>>>, <<"î", <<"Î">>>>, <<"ï", <<"Ï">>>>,
     <<"ð", <<"Ð">>>>, <<"ñ", <<"Ñ">>>>, <<"ò", <<"Ò">>>>,
     <<"ó", <<"Ó">>>>, <<"ô", <<"Ô">>>>, <<"õ", <<"Õ">>>>,
     <<"ö", <<"Ö">>>>, <<"ø", <<"Ø">>>>, <<"ù", <<"Ù">>>>,
     <<"ú", <<"Ú">>>>, <<"û", <<"Û">>>>, <<"ü", <<"Ü">>>>,
     <<"ý", <<"Ý">>>>, <<"þ", <<"Þ">>>>, <<"ÿ", <<"U+0178">>>>,
     <<"U+0101", <<"U+0100">>>>, <<"U+0103", <<"U+0102">>>>,
     <<"U+0105", <<"U+0104">>>>, <<"U+0107", <<"U+0106">>>>,
     <<"U+0109", <<"U+0108">>>>, <<"U+010B", <<"U+010A">>>>,
     <<"U+010D", <<"U+010C">>>>, <<"U+010F", <<"U+010E">>>>,
     <<"U+0111", <<"U+0110">>>>, <<"U+0113", <<"U+0112">>>>,
     <<"U+0115", <<"U+0114">>>>, <<"U+0117", <<"U+0116">>>>,
     <<"U+0119", <<"U+0118">>>>, <<"U+011B", <<"U+011A">>>>,
     <<"U+011D", <<"U+011C">>>>, <<"U+011F", <<"U+011E">>>>,
     <<"U+0121", <<"U+0120">>>>, <<"U+0123", <<"U+0122">>>>,
     <<"U+0125", <<"U+0124">>>>, <<"U+0127", <<"U+0126">>>>,
     <<"U+0129", <<"U+0128">>>>, <<"U+012B", <<"U+012A">>>>,
     <<"U+012D", <<"U+012C">>>>, <<"U+012F", <<"U+012E">>>>,
     <<"U+0131", <<"I">>>>, <<"U+0133", <<"U+0132">>>>,
     <<"U+0135", <<"U+0134">>>>, <<"U+0137", <<"U+0136">>>>,
     <<"U+013A", <<"U+0139">>>>, <<"U+013C", <<"U+013B">>>>,
     <<"U+013E", <<"U+013D">>>>, <<"U+0140", <<"U+013F">>>>,
     <<"U+0142", <<"U+0141">>>>, <<"U+0144", <<"U+0143">>>>,
     <<"U+0146", <<"U+0145">>>>, <<"U+0148", <<"U+0147">>>>,
     <<"U+0149", <<"ʼ", "N">>>>, <<"U+014B", <<"U+014A">>>>,
     <<"U+014D", <<"U+014C">>>>, <<"U+014F", <<"U+014E">>>>,
     <<"U+0151", <<"U+0150">>>>, <<"U+0153", <<"U+0152">>>>,
     <<"U+0155", <<"U+0154">>>>, <<"U+0157", <<"U+0156">>>>,
     <<"U+0159", <<"U+0158">>>>, <<"U+015B", <<"U+015A">>>>,
     <<"U+015D", <<"U+015C">>>>, <<"U+015F", <<"U+015E">>>>,
     <<"U+0161", <<"U+0160">>>>, <<"U+0163", <<"U+0162">>>>,
     <<"U+0165", <<"U+0164">>>>, <<"U+0167", <<"U+0166">>>>,
     <<"U+0169", <<"U+0168">>>>, <<"U+016B", <<"U+016A">>>>,
     <<"U+016D", <<"U+016C">>>>, <<"U+016F", <<"U+016E">>>>,
     <<"U+0171", <<"U+0170">>>>, <<"U+0173", <<"U+0172">>>>,
     <<"U+0175", <<"U+0174">>>>, <<"U+0177", <<"U+0176">>>>,
     <<"U+017A", <<"U+0179">>>>, <<"U+017C", <<"U+017B">>>>,
     <<"U+017E", <<"U+017D">>>>, <<"U+017F", <<"S">>>>,
     <<"ƀ", <<"U+0243">>>>, <<"ƃ", <<"Ƃ">>>>, <<"ƅ", <<"Ƅ">>>>,
     <<"ƈ", <<"Ƈ">>>>, <<"ƌ", <<"Ƌ">>>>, <<"ƒ", <<"Ƒ">>>>,
     <<"ƕ", <<"Ƕ">>>>, <<"ƙ", <<"Ƙ">>>>, <<"ƚ", <<"U+023D">>>>,
     <<"ƞ", <<"U+0220">>>>, <<"ơ", <<"Ơ">>>>, <<"ƣ", <<"Ƣ">>>>,
     <<"ƥ", <<"Ƥ">>>>, <<"ƨ", <<"Ƨ">>>>, <<"ƭ", <<"Ƭ">>>>,
     <<"ư", <<"Ư">>>>, <<"ƴ", <<"Ƴ">>>>, <<"ƶ", <<"Ƶ">>>>,
     <<"ƹ", <<"Ƹ">>>>, <<"ƽ", <<"Ƽ">>>>, <<"ƿ", <<"Ƿ">>>>,
     <<"ǅ", <<"Ǆ">>>>, <<"ǆ", <<"Ǆ">>>>, <<"ǈ", <<"Ǉ">>>>,
     <<"ǉ", <<"Ǉ">>>>, <<"ǋ", <<"Ǌ">>>>, <<"ǌ", <<"Ǌ">>>>,
     <<"ǎ", <<"Ǎ">>>>, <<"ǐ", <<"Ǐ">>>>, <<"ǒ", <<"Ǒ">>>>,
     <<"ǔ", <<"Ǔ">>>>, <<"ǖ", <<"Ǖ">>>>, <<"ǘ", <<"Ǘ">>>>,
     <<"ǚ", <<"Ǚ">>>>, <<"ǜ", <<"Ǜ">>>>, <<"ǝ", <<"Ǝ">>>>,
     <<"ǟ", <<"Ǟ">>>>, <<"ǡ", <<"Ǡ">>>>, <<"ǣ", <<"Ǣ">>>>,
     <<"ǥ", <<"Ǥ">>>>, <<"ǧ", <<"Ǧ">>>>, <<"ǩ", <<"Ǩ">>>>,
     <<"ǫ", <<"Ǫ">>>>, <<"ǭ", <<"Ǭ">>>>, <<"ǯ", <<"Ǯ">>>>,
     <<"ǰ", <<"J", "U+030C">>>>, <<"ǲ", <<"Ǳ">>>>, <<"ǳ", <<"Ǳ">>>>,
     <<"ǵ", <<"Ǵ">>>>, <<"ǹ", <<"Ǹ">>>>, <<"ǻ", <<"Ǻ">>>>,
     <<"ǽ", <<"Ǽ">>>>, <<"ǿ", <<"Ǿ">>>>, <<"U+0201", <<"U+0200">>>>,
     <<"U+0203", <<"U+0202">>>>, <<"U+0205", <<"U+0204">>>>,
     <<"U+0207", <<"U+0206">>>>, <<"U+0209", <<"U+0208">>>>,
     <<"U+020B", <<"U+020A">>>>, <<"U+020D", <<"U+020C">>>>,
     <<"U+020F", <<"U+020E">>>>, <<"U+0211", <<"U+0210">>>>,
     <<"U+0213", <<"U+0212">>>>, <<"U+0215", <<"U+0214">>>>,
     <<"U+0217", <<"U+0216">>>>, <<"U+0219", <<"U+0218">>>>,
     <<"U+021B", <<"U+021A">>>>, <<"U+021D", <<"U+021C">>>>,
     <<"U+021F", <<"U+021E">>>>, <<"U+0223", <<"U+0222">>>>,
     <<"U+0225", <<"U+0224">>>>, <<"U+0227", <<"U+0226">>>>,
     <<"U+0229", <<"U+0228">>>>, <<"U+022B", <<"U+022A">>>>,
     <<"U+022D", <<"U+022C">>>>, <<"U+022F", <<"U+022E">>>>,
     <<"U+0231", <<"U+0230">>>>, <<"U+0233", <<"U+0232">>>>,
     <<"U+023C", <<"U+023B">>>>, <<"U+023F", <<"U+2C7E">>>>,
     <<"U+0240", <<"U+2C7F">>>>, <<"U+0242", <<"U+0241">>>>,
     <<"U+0247", <<"U+0246">>>>, <<"U+0249", <<"U+0248">>>>,
     <<"U+024B", <<"U+024A">>>>, <<"U+024D", <<"U+024C">>>>,
     <<"U+024F", <<"U+024E">>>>, <<"U+0250", <<"U+2C6F">>>>,
     <<"U+0251", <<"U+2C6D">>>>, <<"U+0252", <<"U+2C70">>>>,
     <<"U+0253", <<"Ɓ">>>>, <<"U+0254", <<"Ɔ">>>>, <<"U+0256", <<"Ɖ">>>>,
     <<"U+0257", <<"Ɗ">>>>, <<"U+0259", <<"Ə">>>>, <<"U+025B", <<"Ɛ">>>>,
     <<"U+025C", <<"Ɜ">>>>, <<"U+0260", <<"Ɠ">>>>, <<"U+0261", <<"Ɡ">>>>,
     <<"U+0263", <<"Ɣ">>>>, <<"U+0265", <<"Ɥ">>>>, <<"U+0266", <<"Ɦ">>>>,
     <<"U+0268", <<"Ɨ">>>>, <<"U+0269", <<"Ɩ">>>>, <<"U+026A", <<"Ɪ">>>>,
     <<"U+026B", <<"U+2C62">>>>, <<"U+026C", <<"Ɬ">>>>,
     <<"U+026F", <<"Ɯ">>>>, <<"U+0271", <<"U+2C6E">>>>,
     <<"U+0272", <<"Ɲ">>>>, <<"U+0275", <<"Ɵ">>>>,
     <<"U+027D", <<"U+2C64">>>>, <<"ʀ", <<"Ʀ">>>>, <<"ʂ", <<"Ʂ">>>>,
     <<"ʃ", <<"Ʃ">>>>, <<"ʇ", <<"Ʇ">>>>, <<"ʈ", <<"Ʈ">>>>,
     <<"ʉ", <<"U+0244">>>>, <<"ʊ", <<"Ʊ">>>>, <<"ʋ", <<"Ʋ">>>>,
     <<"ʌ", <<"U+0245">>>>, <<"ʒ", <<"Ʒ">>>>, <<"ʝ", <<"Ʝ">>>>,
     <<"ʞ", <<"Ʞ">>>>, <<"U+0345", <<"Ι">>>>, <<"U+0371", <<"U+0370">>>>,
     <<"U+0373", <<"U+0372">>>>, <<"U+0377", <<"U+0376">>>>,
     <<"U+037B", <<"Ͻ">>>>, <<"U+037C", <<"Ͼ">>>>, <<"U+037D", <<"Ͽ">>>>,
     <<"ΐ", <<"Ι", "U+0308", "U+0301">>>>, <<"ά", <<"Ά">>>>,
     <<"έ", <<"Έ">>>>, <<"ή", <<"Ή">>>>, <<"ί", <<"Ί">>>>,
     <<"ΰ", <<"Υ", "U+0308", "U+0301">>>>, <<"α", <<"Α">>>>,
     <<"β", <<"Β">>>>, <<"γ", <<"Γ">>>>, <<"δ", <<"Δ">>>>,
     <<"ε", <<"Ε">>>>, <<"ζ", <<"Ζ">>>>, <<"η", <<"Η">>>>,
     <<"θ", <<"Θ">>>>, <<"ι", <<"Ι">>>>, <<"κ", <<"Κ">>>>,
     <<"λ", <<"Λ">>>>, <<"μ", <<"Μ">>>>, <<"ν", <<"Ν">>>>,
     <<"ξ", <<"Ξ">>>>, <<"ο", <<"Ο">>>>, <<"π", <<"Π">>>>,
     <<"ρ", <<"Ρ">>>>, <<"ς", <<"Σ">>>>, <<"σ", <<"Σ">>>>,
     <<"τ", <<"Τ">>>>, <<"υ", <<"Υ">>>>, <<"φ", <<"Φ">>>>,
     <<"χ", <<"Χ">>>>, <<"ψ", <<"Ψ">>>>, <<"ω", <<"Ω">>>>,
     <<"ϊ", <<"Ϊ">>>>, <<"ϋ", <<"Ϋ">>>>, <<"ό", <<"Ό">>>>,
     <<"ύ", <<"Ύ">>>>, <<"ώ", <<"Ώ">>>>, <<"ϐ", <<"Β">>>>,
     <<"ϑ", <<"Θ">>>>, <<"ϕ", <<"Φ">>>>, <<"ϖ", <<"Π">>>>,
     <<"ϗ", <<"Ϗ">>>>, <<"ϙ", <<"Ϙ">>>>, <<"ϛ", <<"Ϛ">>>>,
     <<"ϝ", <<"Ϝ">>>>, <<"ϟ", <<"Ϟ">>>>, <<"ϡ", <<"Ϡ">>>>,
     <<"ϣ", <<"Ϣ">>>>, <<"ϥ", <<"Ϥ">>>>, <<"ϧ", <<"Ϧ">>>>,
     <<"ϩ", <<"Ϩ">>>>, <<"ϫ", <<"Ϫ">>>>, <<"ϭ", <<"Ϭ">>>>,
     <<"ϯ", <<"Ϯ">>>>, <<"ϰ", <<"Κ">>>>, <<"ϱ", <<"Ρ">>>>,
     <<"ϲ", <<"Ϲ">>>>, <<"ϳ", <<"U+037F">>>>, <<"ϵ", <<"Ε">>>>,
     <<"ϸ", <<"Ϸ">>>>, <<"ϻ", <<"Ϻ">>>>, <<"U+0430", <<"U+0410">>>>,
     <<"U+0431", <<"U+0411">>>>, <<"U+0432", <<"U+0412">>>>,
     <<"U+0433", <<"U+0413">>>>, <<"U+0434", <<"U+0414">>>>,
     <<"U+0435", <<"U+0415">>>>, <<"U+0436", <<"U+0416">>>>,
     <<"U+0437", <<"U+0417">>>>, <<"U+0438", <<"U+0418">>>>,
     <<"U+0439", <<"U+0419">>>>, <<"U+043A", <<"U+041A">>>>,
     <<"U+043B", <<"U+041B">>>>, <<"U+043C", <<"U+041C">>>>,
     <<"U+043D", <<"U+041D">>>>, <<"U+043E", <<"U+041E">>>>,
     <<"U+043F", <<"U+041F">>>>, <<"U+0440", <<"U+0420">>>>,
     <<"U+0441", <<"U+0421">>>>, <<"U+0442", <<"U+0422">>>>,
     <<"U+0443", <<"U+0423">>>>, <<"U+0444", <<"U+0424">>>>,
     <<"U+0445", <<"U+0425">>>>, <<"U+0446", <<"U+0426">>>>,
     <<"U+0447", <<"U+0427">>>>, <<"U+0448", <<"U+0428">>>>,
     <<"U+0449", <<"U+0429">>>>, <<"U+044A", <<"U+042A">>>>,
     <<"U+044B", <<"U+042B">>>>, <<"U+044C", <<"U+042C">>>>,
     <<"U+044D", <<"U+042D">>>>, <<"U+044E", <<"U+042E">>>>,
     <<"U+044F", <<"U+042F">>>>, <<"U+0450", <<"U+0400">>>>,
     <<"U+0451", <<"U+0401">>>>, <<"U+0452", <<"U+0402">>>>,
     <<"U+0453", <<"U+0403">>>>, <<"U+0454", <<"U+0404">>>>,
     <<"U+0455", <<"U+0405">>>>, <<"U+0456", <<"U+0406">>>>,
     <<"U+0457", <<"U+0407">>>>, <<"U+0458", <<"U+0408">>>>,
     <<"U+0459", <<"U+0409">>>>, <<"U+045A", <<"U+040A">>>>,
     <<"U+045B", <<"U+040B">>>>, <<"U+045C", <<"U+040C">>>>,
     <<"U+045D", <<"U+040D">>>>, <<"U+045E", <<"U+040E">>>>,
     <<"U+045F", <<"U+040F">>>>, <<"U+0461", <<"U+0460">>>>,
     <<"U+0463", <<"U+0462">>>>, <<"U+0465", <<"U+0464">>>>,
     <<"U+0467", <<"U+0466">>>>, <<"U+0469", <<"U+0468">>>>,
     <<"U+046B", <<"U+046A">>>>, <<"U+046D", <<"U+046C">>>>,
     <<"U+046F", <<"U+046E">>>>, <<"U+0471", <<"U+0470">>>>,
     <<"U+0473", <<"U+0472">>>>, <<"U+0475", <<"U+0474">>>>,
     <<"U+0477", <<"U+0476">>>>, <<"U+0479", <<"U+0478">>>>,
     <<"U+047B", <<"U+047A">>>>, <<"U+047D", <<"U+047C">>>>,
     <<"U+047F", <<"U+047E">>>>, <<"ҁ", <<"Ҁ">>>>, <<"ҋ", <<"Ҋ">>>>,
     <<"ҍ", <<"Ҍ">>>>, <<"ҏ", <<"Ҏ">>>>, <<"ґ", <<"Ґ">>>>,
     <<"ғ", <<"Ғ">>>>, <<"ҕ", <<"Ҕ">>>>, <<"җ", <<"Җ">>>>,
     <<"ҙ", <<"Ҙ">>>>, <<"қ", <<"Қ">>>>, <<"ҝ", <<"Ҝ">>>>,
     <<"ҟ", <<"Ҟ">>>>, <<"ҡ", <<"Ҡ">>>>, <<"ң", <<"Ң">>>>,
     <<"ҥ", <<"Ҥ">>>>, <<"ҧ", <<"Ҧ">>>>, <<"ҩ", <<"Ҩ">>>>,
     <<"ҫ", <<"Ҫ">>>>, <<"ҭ", <<"Ҭ">>>>, <<"ү", <<"Ү">>>>,
     <<"ұ", <<"Ұ">>>>, <<"ҳ", <<"Ҳ">>>>, <<"ҵ", <<"Ҵ">>>>,
     <<"ҷ", <<"Ҷ">>>>, <<"ҹ", <<"Ҹ">>>>, <<"һ", <<"Һ">>>>,
     <<"ҽ", <<"Ҽ">>>>, <<"ҿ", <<"Ҿ">>>>, <<"ӂ", <<"Ӂ">>>>,
     <<"ӄ", <<"Ӄ">>>>, <<"ӆ", <<"Ӆ">>>>, <<"ӈ", <<"Ӈ">>>>,
     <<"ӊ", <<"Ӊ">>>>, <<"ӌ", <<"Ӌ">>>>, <<"ӎ", <<"Ӎ">>>>,
     <<"ӏ", <<"Ӏ">>>>, <<"ӑ", <<"Ӑ">>>>, <<"ӓ", <<"Ӓ">>>>,
     <<"ӕ", <<"Ӕ">>>>, <<"ӗ", <<"Ӗ">>>>, <<"ә", <<"Ә">>>>,
     <<"ӛ", <<"Ӛ">>>>, <<"ӝ", <<"Ӝ">>>>, <<"ӟ", <<"Ӟ">>>>,
     <<"ӡ", <<"Ӡ">>>>, <<"ӣ", <<"Ӣ">>>>, <<"ӥ", <<"Ӥ">>>>,
     <<"ӧ", <<"Ӧ">>>>, <<"ө", <<"Ө">>>>, <<"ӫ", <<"Ӫ">>>>,
     <<"ӭ", <<"Ӭ">>>>, <<"ӯ", <<"Ӯ">>>>, <<"ӱ", <<"Ӱ">>>>,
     <<"ӳ", <<"Ӳ">>>>, <<"ӵ", <<"Ӵ">>>>, <<"ӷ", <<"Ӷ">>>>,
     <<"ӹ", <<"Ӹ">>>>, <<"ӻ", <<"Ӻ">>>>, <<"ӽ", <<"Ӽ">>>>,
     <<"ӿ", <<"Ӿ">>>>, <<"U+0501", <<"U+0500">>>>,
     <<"U+0503", <<"U+0502">>>>, <<"U+0505", <<"U+0504">>>>,
     <<"U+0507", <<"U+0506">>>>, <<"U+0509", <<"U+0508">>>>,
     <<"U+050B", <<"U+050A">>>>, <<"U+050D", <<"U+050C">>>>,
     <<"U+050F", <<"U+050E">>>>, <<"U+0511", <<"U+0510">>>>,
     <<"U+0513", <<"U+0512">>>>, <<"U+0515", <<"U+0514">>>>,
     <<"U+0517", <<"U+0516">>>>, <<"U+0519", <<"U+0518">>>>,
     <<"U+051B", <<"U+051A">>>>, <<"U+051D", <<"U+051C">>>>,
     <<"U+051F", <<"U+051E">>>>, <<"U+0521", <<"U+0520">>>>,
     <<"U+0523", <<"U+0522">>>>, <<"U+0525", <<"U+0524">>>>,
     <<"U+0527", <<"U+0526">>>>, <<"U+0529", <<"U+0528">>>>,
     <<"U+052B", <<"U+052A">>>>, <<"U+052D", <<"U+052C">>>>,
     <<"U+052F", <<"U+052E">>>>, <<"U+0561", <<"U+0531">>>>,
     <<"U+0562", <<"U+0532">>>>, <<"U+0563", <<"U+0533">>>>,
     <<"U+0564", <<"U+0534">>>>, <<"U+0565", <<"U+0535">>>>,
     <<"U+0566", <<"U+0536">>>>, <<"U+0567", <<"U+0537">>>>,
     <<"U+0568", <<"U+0538">>>>, <<"U+0569", <<"U+0539">>>>,
     <<"U+056A", <<"U+053A">>>>, <<"U+056B", <<"U+053B">>>>,
     <<"U+056C", <<"U+053C">>>>, <<"U+056D", <<"U+053D">>>>,
     <<"U+056E", <<"U+053E">>>>, <<"U+056F", <<"U+053F">>>>,
     <<"U+0570", <<"U+0540">>>>, <<"U+0571", <<"U+0541">>>>,
     <<"U+0572", <<"U+0542">>>>, <<"U+0573", <<"U+0543">>>>,
     <<"U+0574", <<"U+0544">>>>, <<"U+0575", <<"U+0545">>>>,
     <<"U+0576", <<"U+0546">>>>, <<"U+0577", <<"U+0547">>>>,
     <<"U+0578", <<"U+0548">>>>, <<"U+0579", <<"U+0549">>>>,
     <<"U+057A", <<"U+054A">>>>, <<"U+057B", <<"U+054B">>>>,
     <<"U+057C", <<"U+054C">>>>, <<"U+057D", <<"U+054D">>>>,
     <<"U+057E", <<"U+054E">>>>, <<"U+057F", <<"U+054F">>>>,
     <<"ր", <<"U+0550">>>>, <<"ց", <<"U+0551">>>>, <<"ւ", <<"U+0552">>>>,
     <<"փ", <<"U+0553">>>>, <<"ք", <<"U+0554">>>>, <<"օ", <<"U+0555">>>>,
     <<"ֆ", <<"U+0556">>>>, <<"և", <<"U+0535", "U+0552">>>>,
     <<"ა", <<"Ა">>>>, <<"ბ", <<"Ბ">>>>, <<"გ", <<"Გ">>>>,
     <<"დ", <<"Დ">>>>, <<"ე", <<"Ე">>>>, <<"ვ", <<"Ვ">>>>,
     <<"ზ", <<"Ზ">>>>, <<"თ", <<"Თ">>>>, <<"ი", <<"Ი">>>>,
     <<"კ", <<"Კ">>>>, <<"ლ", <<"Ლ">>>>, <<"მ", <<"Მ">>>>,
     <<"ნ", <<"Ნ">>>>, <<"ო", <<"Ო">>>>, <<"პ", <<"Პ">>>>,
     <<"ჟ", <<"Ჟ">>>>, <<"რ", <<"Რ">>>>, <<"ს", <<"Ს">>>>,
     <<"ტ", <<"Ტ">>>>, <<"უ", <<"Უ">>>>, <<"ფ", <<"Ფ">>>>,
     <<"ქ", <<"Ქ">>>>, <<"ღ", <<"Ღ">>>>, <<"ყ", <<"Ყ">>>>,
     <<"შ", <<"Შ">>>>, <<"ჩ", <<"Ჩ">>>>, <<"ც", <<"Ც">>>>,
     <<"ძ", <<"Ძ">>>>, <<"წ", <<"Წ">>>>, <<"ჭ", <<"Ჭ">>>>,
     <<"ხ", <<"Ხ">>>>, <<"ჯ", <<"Ჯ">>>>, <<"ჰ", <<"Ჰ">>>>,
     <<"ჱ", <<"Ჱ">>>>, <<"ჲ", <<"Ჲ">>>>, <<"ჳ", <<"Ჳ">>>>,
     <<"ჴ", <<"Ჴ">>>>, <<"ჵ", <<"Ჵ">>>>, <<"ჶ", <<"Ჶ">>>>,
     <<"ჷ", <<"Ჷ">>>>, <<"ჸ", <<"Ჸ">>>>, <<"ჹ", <<"Ჹ">>>>,
     <<"ჺ", <<"Ჺ">>>>, <<"ჽ", <<"Ჽ">>>>, <<"ჾ", <<"Ჾ">>>>,
     <<"ჿ", <<"Ჿ">>>>, <<"ᏸ", <<"Ᏸ">>>>, <<"ᏹ", <<"Ᏹ">>>>,
     <<"ᏺ", <<"Ᏺ">>>>, <<"ᏻ", <<"Ᏻ">>>>, <<"ᏼ", <<"Ᏼ">>>>,
     <<"ᏽ", <<"Ᏽ">>>>, <<"ᲀ", <<"U+0412">>>>, <<"ᲁ", <<"U+0414">>>>,
     <<"ᲂ", <<"U+041E">>>>, <<"ᲃ", <<"U+0421">>>>, <<"ᲄ", <<"U+0422">>>>,
     <<"ᲅ", <<"U+0422">>>>, <<"ᲆ", <<"U+042A">>>>, <<"ᲇ", <<"U+0462">>>>,
     <<"ᲈ", <<"U+A64A">>>>, <<"U+1D79", <<"U+A77D">>>>,
     <<"U+1D7D", <<"U+2C63">>>>, <<"ᶎ", <<"Ᶎ">>>>,
     <<"U+1E01", <<"U+1E00">>>>, <<"U+1E03", <<"U+1E02">>>>,
     <<"U+1E05", <<"U+1E04">>>>, <<"U+1E07", <<"U+1E06">>>>,
     <<"U+1E09", <<"U+1E08">>>>, <<"U+1E0B", <<"U+1E0A">>>>,
     <<"U+1E0D", <<"U+1E0C">>>>, <<"U+1E0F", <<"U+1E0E">>>>,
     <<"U+1E11", <<"U+1E10">>>>, <<"U+1E13", <<"U+1E12">>>>,
     <<"U+1E15", <<"U+1E14">>>>, <<"U+1E17", <<"U+1E16">>>>,
     <<"U+1E19", <<"U+1E18">>>>, <<"U+1E1B", <<"U+1E1A">>>>,
     <<"U+1E1D", <<"U+1E1C">>>>, <<"U+1E1F", <<"U+1E1E">>>>,
     <<"U+1E21", <<"U+1E20">>>>, <<"U+1E23", <<"U+1E22">>>>,
     <<"U+1E25", <<"U+1E24">>>>, <<"U+1E27", <<"U+1E26">>>>,
     <<"U+1E29", <<"U+1E28">>>>, <<"U+1E2B", <<"U+1E2A">>>>,
     <<"U+1E2D", <<"U+1E2C">>>>, <<"U+1E2F", <<"U+1E2E">>>>,
     <<"U+1E31", <<"U+1E30">>>>, <<"U+1E33", <<"U+1E32">>>>,
     <<"U+1E35", <<"U+1E34">>>>, <<"U+1E37", <<"U+1E36">>>>,
     <<"U+1E39", <<"U+1E38">>>>, <<"U+1E3B", <<"U+1E3A">>>>,
     <<"U+1E3D", <<"U+1E3C">>>>, <<"U+1E3F", <<"U+1E3E">>>>,
     <<"U+1E41", <<"U+1E40">>>>, <<"U+1E43", <<"U+1E42">>>>,
     <<"U+1E45", <<"U+1E44">>>>, <<"U+1E47", <<"U+1E46">>>>,
     <<"U+1E49", <<"U+1E48">>>>, <<"U+1E4B", <<"U+1E4A">>>>,
     <<"U+1E4D", <<"U+1E4C">>>>, <<"U+1E4F", <<"U+1E4E">>>>,
     <<"U+1E51", <<"U+1E50">>>>, <<"U+1E53", <<"U+1E52">>>>,
     <<"U+1E55", <<"U+1E54">>>>, <<"U+1E57", <<"U+1E56">>>>,
     <<"U+1E59", <<"U+1E58">>>>, <<"U+1E5B", <<"U+1E5A">>>>,
     <<"U+1E5D", <<"U+1E5C">>>>, <<"U+1E5F", <<"U+1E5E">>>>,
     <<"U+1E61", <<"U+1E60">>>>, <<"U+1E63", <<"U+1E62">>>>,
     <<"U+1E65", <<"U+1E64">>>>, <<"U+1E67", <<"U+1E66">>>>,
     <<"U+1E69", <<"U+1E68">>>>, <<"U+1E6B", <<"U+1E6A">>>>,
     <<"U+1E6D", <<"U+1E6C">>>>, <<"U+1E6F", <<"U+1E6E">>>>,
     <<"U+1E71", <<"U+1E70">>>>, <<"U+1E73", <<"U+1E72">>>>,
     <<"U+1E75", <<"U+1E74">>>>, <<"U+1E77", <<"U+1E76">>>>,
     <<"U+1E79", <<"U+1E78">>>>, <<"U+1E7B", <<"U+1E7A">>>>,
     <<"U+1E7D", <<"U+1E7C">>>>, <<"U+1E7F", <<"U+1E7E">>>>,
     <<"ẁ", <<"Ẁ">>>>, <<"ẃ", <<"Ẃ">>>>, <<"ẅ", <<"Ẅ">>>>,
     <<"ẇ", <<"Ẇ">>>>, <<"ẉ", <<"Ẉ">>>>, <<"ẋ", <<"Ẋ">>>>,
     <<"ẍ", <<"Ẍ">>>>, <<"ẏ", <<"Ẏ">>>>, <<"ẑ", <<"Ẑ">>>>,
     <<"ẓ", <<"Ẓ">>>>, <<"ẕ", <<"Ẕ">>>>, <<"ẖ", <<"H", "U+0331">>>>,
     <<"ẗ", <<"T", "U+0308">>>>, <<"ẘ", <<"W", "U+030A">>>>,
     <<"ẙ", <<"Y", "U+030A">>>>, <<"ẚ", <<"A", "ʾ">>>>,
     <<"ẛ", <<"U+1E60">>>>, <<"ạ", <<"Ạ">>>>, <<"ả", <<"Ả">>>>,
     <<"ấ", <<"Ấ">>>>, <<"ầ", <<"Ầ">>>>, <<"ẩ", <<"Ẩ">>>>,
     <<"ẫ", <<"Ẫ">>>>, <<"ậ", <<"Ậ">>>>, <<"ắ", <<"Ắ">>>>,
     <<"ằ", <<"Ằ">>>>, <<"ẳ", <<"Ẳ">>>>, <<"ẵ", <<"Ẵ">>>>,
     <<"ặ", <<"Ặ">>>>, <<"ẹ", <<"Ẹ">>>>, <<"ẻ", <<"Ẻ">>>>,
     <<"ẽ", <<"Ẽ">>>>, <<"ế", <<"Ế">>>>, <<"ề", <<"Ề">>>>,
     <<"ể", <<"Ể">>>>, <<"ễ", <<"Ễ">>>>, <<"ệ", <<"Ệ">>>>,
     <<"ỉ", <<"Ỉ">>>>, <<"ị", <<"Ị">>>>, <<"ọ", <<"Ọ">>>>,
     <<"ỏ", <<"Ỏ">>>>, <<"ố", <<"Ố">>>>, <<"ồ", <<"Ồ">>>>,
     <<"ổ", <<"Ổ">>>>, <<"ỗ", <<"Ỗ">>>>, <<"ộ", <<"Ộ">>>>,
     <<"ớ", <<"Ớ">>>>, <<"ờ", <<"Ờ">>>>, <<"ở", <<"Ở">>>>,
     <<"ỡ", <<"Ỡ">>>>, <<"ợ", <<"Ợ">>>>, <<"ụ", <<"Ụ">>>>,
     <<"ủ", <<"Ủ">>>>, <<"ứ", <<"Ứ">>>>, <<"ừ", <<"Ừ">>>>,
     <<"ử", <<"Ử">>>>, <<"ữ", <<"Ữ">>>>, <<"ự", <<"Ự">>>>,
     <<"ỳ", <<"Ỳ">>>>, <<"ỵ", <<"Ỵ">>>>, <<"ỷ", <<"Ỷ">>>>,
     <<"ỹ", <<"Ỹ">>>>, <<"ỻ", <<"Ỻ">>>>, <<"ỽ", <<"Ỽ">>>>,
     <<"ỿ", <<"Ỿ">>>>, <<"U+1F00", <<"U+1F08">>>>,
     <<"U+1F01", <<"U+1F09">>>>, <<"U+1F02", <<"U+1F0A">>>>,
     <<"U+1F03", <<"U+1F0B">>>>, <<"U+1F04", <<"U+1F0C">>>>,
     <<"U+1F05", <<"U+1F0D">>>>, <<"U+1F06", <<"U+1F0E">>>>,
     <<"U+1F07", <<"U+1F0F">>>>, <<"U+1F10", <<"U+1F18">>>>,
     <<"U+1F11", <<"U+1F19">>>>, <<"U+1F12", <<"U+1F1A">>>>,
     <<"U+1F13", <<"U+1F1B">>>>, <<"U+1F14", <<"U+1F1C">>>>,
     <<"U+1F15", <<"U+1F1D">>>>, <<"U+1F20", <<"U+1F28">>>>,
     <<"U+1F21", <<"U+1F29">>>>, <<"U+1F22", <<"U+1F2A">>>>,
     <<"U+1F23", <<"U+1F2B">>>>, <<"U+1F24", <<"U+1F2C">>>>,
     <<"U+1F25", <<"U+1F2D">>>>, <<"U+1F26", <<"U+1F2E">>>>,
     <<"U+1F27", <<"U+1F2F">>>>, <<"U+1F30", <<"U+1F38">>>>,
     <<"U+1F31", <<"U+1F39">>>>, <<"U+1F32", <<"U+1F3A">>>>,
     <<"U+1F33", <<"U+1F3B">>>>, <<"U+1F34", <<"U+1F3C">>>>,
     <<"U+1F35", <<"U+1F3D">>>>, <<"U+1F36", <<"U+1F3E">>>>,
     <<"U+1F37", <<"U+1F3F">>>>, <<"U+1F40", <<"U+1F48">>>>,
     <<"U+1F41", <<"U+1F49">>>>, <<"U+1F42", <<"U+1F4A">>>>,
     <<"U+1F43", <<"U+1F4B">>>>, <<"U+1F44", <<"U+1F4C">>>>,
     <<"U+1F45", <<"U+1F4D">>>>, <<"U+1F50", <<"Υ", "U+0313">>>>,
     <<"U+1F51", <<"U+1F59">>>>, <<"U+1F52", <<"Υ", "U+0313", "U+0300">>>>,
     <<"U+1F53", <<"U+1F5B">>>>, <<"U+1F54", <<"Υ", "U+0313", "U+0301">>>>,
     <<"U+1F55", <<"U+1F5D">>>>, <<"U+1F56", <<"Υ", "U+0313", "U+0342">>>>,
     <<"U+1F57", <<"U+1F5F">>>>, <<"U+1F60", <<"U+1F68">>>>,
     <<"U+1F61", <<"U+1F69">>>>, <<"U+1F62", <<"U+1F6A">>>>,
     <<"U+1F63", <<"U+1F6B">>>>, <<"U+1F64", <<"U+1F6C">>>>,
     <<"U+1F65", <<"U+1F6D">>>>, <<"U+1F66", <<"U+1F6E">>>>,
     <<"U+1F67", <<"U+1F6F">>>>, <<"U+1F70", <<"Ὰ">>>>,
     <<"U+1F71", <<"Ά">>>>, <<"U+1F72", <<"Ὲ">>>>, <<"U+1F73", <<"Έ">>>>,
     <<"U+1F74", <<"Ὴ">>>>, <<"U+1F75", <<"Ή">>>>, <<"U+1F76", <<"Ὶ">>>>,
     <<"U+1F77", <<"Ί">>>>, <<"U+1F78", <<"Ὸ">>>>, <<"U+1F79", <<"Ό">>>>,
     <<"U+1F7A", <<"Ὺ">>>>, <<"U+1F7B", <<"Ύ">>>>, <<"U+1F7C", <<"Ὼ">>>>,
     <<"U+1F7D", <<"Ώ">>>>, <<"ᾀ", <<"U+1F08", "Ι">>>>,
     <<"ᾁ", <<"U+1F09", "Ι">>>>, <<"ᾂ", <<"U+1F0A", "Ι">>>>,
     <<"ᾃ", <<"U+1F0B", "Ι">>>>, <<"ᾄ", <<"U+1F0C", "Ι">>>>,
     <<"ᾅ", <<"U+1F0D", "Ι">>>>, <<"ᾆ", <<"U+1F0E", "Ι">>>>,
     <<"ᾇ", <<"U+1F0F", "Ι">>>>, <<"ᾈ", <<"U+1F08", "Ι">>>>,
     <<"ᾉ", <<"U+1F09", "Ι">>>>, <<"ᾊ", <<"U+1F0A", "Ι">>>>,
     <<"ᾋ", <<"U+1F0B", "Ι">>>>, <<"ᾌ", <<"U+1F0C", "Ι">>>>,
     <<"ᾍ", <<"U+1F0D", "Ι">>>>, <<"ᾎ", <<"U+1F0E", "Ι">>>>,
     <<"ᾏ", <<"U+1F0F", "Ι">>>>, <<"ᾐ", <<"U+1F28", "Ι">>>>,
     <<"ᾑ", <<"U+1F29", "Ι">>>>, <<"ᾒ", <<"U+1F2A", "Ι">>>>,
     <<"ᾓ", <<"U+1F2B", "Ι">>>>, <<"ᾔ", <<"U+1F2C", "Ι">>>>,
     <<"ᾕ", <<"U+1F2D", "Ι">>>>, <<"ᾖ", <<"U+1F2E", "Ι">>>>,
     <<"ᾗ", <<"U+1F2F", "Ι">>>>, <<"ᾘ", <<"U+1F28", "Ι">>>>,
     <<"ᾙ", <<"U+1F29", "Ι">>>>, <<"ᾚ", <<"U+1F2A", "Ι">>>>,
     <<"ᾛ", <<"U+1F2B", "Ι">>>>, <<"ᾜ", <<"U+1F2C", "Ι">>>>,
     <<"ᾝ", <<"U+1F2D", "Ι">>>>, <<"ᾞ", <<"U+1F2E", "Ι">>>>,
     <<"ᾟ", <<"U+1F2F", "Ι">>>>, <<"ᾠ", <<"U+1F68", "Ι">>>>,
     <<"ᾡ", <<"U+1F69", "Ι">>>>, <<"ᾢ", <<"U+1F6A", "Ι">>>>,
     <<"ᾣ", <<"U+1F6B", "Ι">>>>, <<"ᾤ", <<"U+1F6C", "Ι">>>>,
     <<"ᾥ", <<"U+1F6D", "Ι">>>>, <<"ᾦ", <<"U+1F6E", "Ι">>>>,
     <<"ᾧ", <<"U+1F6F", "Ι">>>>, <<"ᾨ", <<"U+1F68", "Ι">>>>,
     <<"ᾩ", <<"U+1F69", "Ι">>>>, <<"ᾪ", <<"U+1F6A", "Ι">>>>,
     <<"ᾫ", <<"U+1F6B", "Ι">>>>, <<"ᾬ", <<"U+1F6C", "Ι">>>>,
     <<"ᾭ", <<"U+1F6D", "Ι">>>>, <<"ᾮ", <<"U+1F6E", "Ι">>>>,
     <<"ᾯ", <<"U+1F6F", "Ι">>>>, <<"ᾰ", <<"Ᾰ">>>>, <<"ᾱ", <<"Ᾱ">>>>,
     <<"ᾲ", <<"Ὰ", "Ι">>>>, <<"ᾳ", <<"Α", "Ι">>>>, <<"ᾴ", <<"Ά", "Ι">>>>,
     <<"ᾶ", <<"Α", "U+0342">>>>, <<"ᾷ", <<"Α", "U+0342", "Ι">>>>,
     <<"ᾼ", <<"Α", "Ι">>>>, <<"ι", <<"Ι">>>>, <<"ῂ", <<"Ὴ", "Ι">>>>,
     <<"ῃ", <<"Η", "Ι">>>>, <<"ῄ", <<"Ή", "Ι">>>>,
     <<"ῆ", <<"Η", "U+0342">>>>, <<"ῇ", <<"Η", "U+0342", "Ι">>>>,
     <<"ῌ", <<"Η", "Ι">>>>, <<"ῐ", <<"Ῐ">>>>, <<"ῑ", <<"Ῑ">>>>,
     <<"ῒ", <<"Ι", "U+0308", "U+0300">>>>,
     <<"ΐ", <<"Ι", "U+0308", "U+0301">>>>, <<"ῖ", <<"Ι", "U+0342">>>>,
     <<"ῗ", <<"Ι", "U+0308", "U+0342">>>>, <<"ῠ", <<"Ῠ">>>>,
     <<"ῡ", <<"Ῡ">>>>, <<"ῢ", <<"Υ", "U+0308", "U+0300">>>>,
     <<"ΰ", <<"Υ", "U+0308", "U+0301">>>>, <<"ῤ", <<"Ρ", "U+0313">>>>,
     <<"ῥ", <<"Ῥ">>>>, <<"ῦ", <<"Υ", "U+0342">>>>,
     <<"ῧ", <<"Υ", "U+0308", "U+0342">>>>, <<"ῲ", <<"Ὼ", "Ι">>>>,
     <<"ῳ", <<"Ω", "Ι">>>>, <<"ῴ", <<"Ώ", "Ι">>>>,
     <<"ῶ", <<"Ω", "U+0342">>>>, <<"ῷ", <<"Ω", "U+0342", "Ι">>>>,
     <<"ῼ", <<"Ω", "Ι">>>>, <<"U+214E", <<"U+2132">>>>,
     <<"U+2170", <<"U+2160">>>>, <<"U+2171", <<"U+2161">>>>,
     <<"U+2172", <<"U+2162">>>>, <<"U+2173", <<"U+2163">>>>,
     <<"U+2174", <<"U+2164">>>>, <<"U+2175", <<"U+2165">>>>,
     <<"U+2176", <<"U+2166">>>>, <<"U+2177", <<"U+2167">>>>,
     <<"U+2178", <<"U+2168">>>>, <<"U+2179", <<"U+2169">>>>,
     <<"U+217A", <<"U+216A">>>>, <<"U+217B", <<"U+216B">>>>,
     <<"U+217C", <<"U+216C">>>>, <<"U+217D", <<"U+216D">>>>,
     <<"U+217E", <<"U+216E">>>>, <<"U+217F", <<"U+216F">>>>,
     <<"ↄ", <<"Ↄ">>>>, <<"ⓐ", <<"Ⓐ">>>>, <<"ⓑ", <<"Ⓑ">>>>,
     <<"ⓒ", <<"Ⓒ">>>>, <<"ⓓ", <<"Ⓓ">>>>, <<"ⓔ", <<"Ⓔ">>>>,
     <<"ⓕ", <<"Ⓕ">>>>, <<"ⓖ", <<"Ⓖ">>>>, <<"ⓗ", <<"Ⓗ">>>>,
     <<"ⓘ", <<"Ⓘ">>>>, <<"ⓙ", <<"Ⓙ">>>>, <<"ⓚ", <<"Ⓚ">>>>,
     <<"ⓛ", <<"Ⓛ">>>>, <<"ⓜ", <<"Ⓜ">>>>, <<"ⓝ", <<"Ⓝ">>>>,
     <<"ⓞ", <<"Ⓞ">>>>, <<"ⓟ", <<"Ⓟ">>>>, <<"ⓠ", <<"Ⓠ">>>>,
     <<"ⓡ", <<"Ⓡ">>>>, <<"ⓢ", <<"Ⓢ">>>>, <<"ⓣ", <<"Ⓣ">>>>,
     <<"ⓤ", <<"Ⓤ">>>>, <<"ⓥ", <<"Ⓥ">>>>, <<"ⓦ", <<"Ⓦ">>>>,
     <<"ⓧ", <<"Ⓧ">>>>, <<"ⓨ", <<"Ⓨ">>>>, <<"ⓩ", <<"Ⓩ">>>>,
     <<"U+2C30", <<"U+2C00">>>>, <<"U+2C31", <<"U+2C01">>>>,
     <<"U+2C32", <<"U+2C02">>>>, <<"U+2C33", <<"U+2C03">>>>,
     <<"U+2C34", <<"U+2C04">>>>, <<"U+2C35", <<"U+2C05">>>>,
     <<"U+2C36", <<"U+2C06">>>>, <<"U+2C37", <<"U+2C07">>>>,
     <<"U+2C38", <<"U+2C08">>>>, <<"U+2C39", <<"U+2C09">>>>,
     <<"U+2C3A", <<"U+2C0A">>>>, <<"U+2C3B", <<"U+2C0B">>>>,
     <<"U+2C3C", <<"U+2C0C">>>>, <<"U+2C3D", <<"U+2C0D">>>>,
     <<"U+2C3E", <<"U+2C0E">>>>, <<"U+2C3F", <<"U+2C0F">>>>,
     <<"U+2C40", <<"U+2C10">>>>, <<"U+2C41", <<"U+2C11">>>>,
     <<"U+2C42", <<"U+2C12">>>>, <<"U+2C43", <<"U+2C13">>>>,
     <<"U+2C44", <<"U+2C14">>>>, <<"U+2C45", <<"U+2C15">>>>,
     <<"U+2C46", <<"U+2C16">>>>, <<"U+2C47", <<"U+2C17">>>>,
     <<"U+2C48", <<"U+2C18">>>>, <<"U+2C49", <<"U+2C19">>>>,
     <<"U+2C4A", <<"U+2C1A">>>>, <<"U+2C4B", <<"U+2C1B">>>>,
     <<"U+2C4C", <<"U+2C1C">>>>, <<"U+2C4D", <<"U+2C1D">>>>,
     <<"U+2C4E", <<"U+2C1E">>>>, <<"U+2C4F", <<"U+2C1F">>>>,
     <<"U+2C50", <<"U+2C20">>>>, <<"U+2C51", <<"U+2C21">>>>,
     <<"U+2C52", <<"U+2C22">>>>, <<"U+2C53", <<"U+2C23">>>>,
     <<"U+2C54", <<"U+2C24">>>>, <<"U+2C55", <<"U+2C25">>>>,
     <<"U+2C56", <<"U+2C26">>>>, <<"U+2C57", <<"U+2C27">>>>,
     <<"U+2C58", <<"U+2C28">>>>, <<"U+2C59", <<"U+2C29">>>>,
     <<"U+2C5A", <<"U+2C2A">>>>, <<"U+2C5B", <<"U+2C2B">>>>,
     <<"U+2C5C", <<"U+2C2C">>>>, <<"U+2C5D", <<"U+2C2D">>>>,
     <<"U+2C5E", <<"U+2C2E">>>>, <<"U+2C5F", <<"U+2C2F">>>>,
     <<"U+2C61", <<"U+2C60">>>>, <<"U+2C65", <<"U+023A">>>>,
     <<"U+2C66", <<"U+023E">>>>, <<"U+2C68", <<"U+2C67">>>>,
     <<"U+2C6A", <<"U+2C69">>>>, <<"U+2C6C", <<"U+2C6B">>>>,
     <<"U+2C73", <<"U+2C72">>>>, <<"U+2C76", <<"U+2C75">>>>,
     <<"ⲁ", <<"Ⲁ">>>>, <<"ⲃ", <<"Ⲃ">>>>, <<"ⲅ", <<"Ⲅ">>>>,
     <<"ⲇ", <<"Ⲇ">>>>, <<"ⲉ", <<"Ⲉ">>>>, <<"ⲋ", <<"Ⲋ">>>>,
     <<"ⲍ", <<"Ⲍ">>>>, <<"ⲏ", <<"Ⲏ">>>>, <<"ⲑ", <<"Ⲑ">>>>,
     <<"ⲓ", <<"Ⲓ">>>>, <<"ⲕ", <<"Ⲕ">>>>, <<"ⲗ", <<"Ⲗ">>>>,
     <<"ⲙ", <<"Ⲙ">>>>, <<"ⲛ", <<"Ⲛ">>>>, <<"ⲝ", <<"Ⲝ">>>>,
     <<"ⲟ", <<"Ⲟ">>>>, <<"ⲡ", <<"Ⲡ">>>>, <<"ⲣ", <<"Ⲣ">>>>,
     <<"ⲥ", <<"Ⲥ">>>>, <<"ⲧ", <<"Ⲧ">>>>, <<"ⲩ", <<"Ⲩ">>>>,
     <<"ⲫ", <<"Ⲫ">>>>, <<"ⲭ", <<"Ⲭ">>>>, <<"ⲯ", <<"Ⲯ">>>>,
     <<"ⲱ", <<"Ⲱ">>>>, <<"ⲳ", <<"Ⲳ">>>>, <<"ⲵ", <<"Ⲵ">>>>,
     <<"ⲷ", <<"Ⲷ">>>>, <<"ⲹ", <<"Ⲹ">>>>, <<"ⲻ", <<"Ⲻ">>>>,
     <<"ⲽ", <<"Ⲽ">>>>, <<"ⲿ", <<"Ⲿ">>>>, <<"ⳁ", <<"Ⳁ">>>>,
     <<"ⳃ", <<"Ⳃ">>>>, <<"ⳅ", <<"Ⳅ">>>>, <<"ⳇ", <<"Ⳇ">>>>,
     <<"ⳉ", <<"Ⳉ">>>>, <<"ⳋ", <<"Ⳋ">>>>, <<"ⳍ", <<"Ⳍ">>>>,
     <<"ⳏ", <<"Ⳏ">>>>, <<"ⳑ", <<"Ⳑ">>>>, <<"ⳓ", <<"Ⳓ">>>>,
     <<"ⳕ", <<"Ⳕ">>>>, <<"ⳗ", <<"Ⳗ">>>>, <<"ⳙ", <<"Ⳙ">>>>,
     <<"ⳛ", <<"Ⳛ">>>>, <<"ⳝ", <<"Ⳝ">>>>, <<"ⳟ", <<"Ⳟ">>>>,
     <<"ⳡ", <<"Ⳡ">>>>, <<"ⳣ", <<"Ⳣ">>>>, <<"ⳬ", <<"Ⳬ">>>>,
     <<"ⳮ", <<"Ⳮ">>>>, <<"ⳳ", <<"Ⳳ">>>>, <<"U+2D00", <<"Ⴀ">>>>,
     <<"U+2D01", <<"Ⴁ">>>>, <<"U+2D02", <<"Ⴂ">>>>, <<"U+2D03", <<"Ⴃ">>>>,
     <<"U+2D04", <<"Ⴄ">>>>, <<"U+2D05", <<"Ⴅ">>>>, <<"U+2D06", <<"Ⴆ">>>>,
     <<"U+2D07", <<"Ⴇ">>>>, <<"U+2D08", <<"Ⴈ">>>>, <<"U+2D09", <<"Ⴉ">>>>,
     <<"U+2D0A", <<"Ⴊ">>>>, <<"U+2D0B", <<"Ⴋ">>>>, <<"U+2D0C", <<"Ⴌ">>>>,
     <<"U+2D0D", <<"Ⴍ">>>>, <<"U+2D0E", <<"Ⴎ">>>>, <<"U+2D0F", <<"Ⴏ">>>>,
     <<"U+2D10", <<"Ⴐ">>>>, <<"U+2D11", <<"Ⴑ">>>>, <<"U+2D12", <<"Ⴒ">>>>,
     <<"U+2D13", <<"Ⴓ">>>>, <<"U+2D14", <<"Ⴔ">>>>, <<"U+2D15", <<"Ⴕ">>>>,
     <<"U+2D16", <<"Ⴖ">>>>, <<"U+2D17", <<"Ⴗ">>>>, <<"U+2D18", <<"Ⴘ">>>>,
     <<"U+2D19", <<"Ⴙ">>>>, <<"U+2D1A", <<"Ⴚ">>>>, <<"U+2D1B", <<"Ⴛ">>>>,
     <<"U+2D1C", <<"Ⴜ">>>>, <<"U+2D1D", <<"Ⴝ">>>>, <<"U+2D1E", <<"Ⴞ">>>>,
     <<"U+2D1F", <<"Ⴟ">>>>, <<"U+2D20", <<"Ⴠ">>>>, <<"U+2D21", <<"Ⴡ">>>>,
     <<"U+2D22", <<"Ⴢ">>>>, <<"U+2D23", <<"Ⴣ">>>>, <<"U+2D24", <<"Ⴤ">>>>,
     <<"U+2D25", <<"Ⴥ">>>>, <<"U+2D27", <<"Ⴧ">>>>, <<"U+2D2D", <<"Ⴭ">>>>,
     <<"U+A641", <<"U+A640">>>>, <<"U+A643", <<"U+A642">>>>,
     <<"U+A645", <<"U+A644">>>>, <<"U+A647", <<"U+A646">>>>,
     <<"U+A649", <<"U+A648">>>>, <<"U+A64B", <<"U+A64A">>>>,
     <<"U+A64D", <<"U+A64C">>>>, <<"U+A64F", <<"U+A64E">>>>,
     <<"U+A651", <<"U+A650">>>>, <<"U+A653", <<"U+A652">>>>,
     <<"U+A655", <<"U+A654">>>>, <<"U+A657", <<"U+A656">>>>,
     <<"U+A659", <<"U+A658">>>>, <<"U+A65B", <<"U+A65A">>>>,
     <<"U+A65D", <<"U+A65C">>>>, <<"U+A65F", <<"U+A65E">>>>,
     <<"U+A661", <<"U+A660">>>>, <<"U+A663", <<"U+A662">>>>,
     <<"U+A665", <<"U+A664">>>>, <<"U+A667", <<"U+A666">>>>,
     <<"U+A669", <<"U+A668">>>>, <<"U+A66B", <<"U+A66A">>>>,
     <<"U+A66D", <<"U+A66C">>>>, <<"ꚁ", <<"Ꚁ">>>>, <<"ꚃ", <<"Ꚃ">>>>,
     <<"ꚅ", <<"Ꚅ">>>>, <<"ꚇ", <<"Ꚇ">>>>, <<"ꚉ", <<"Ꚉ">>>>,
     <<"ꚋ", <<"Ꚋ">>>>, <<"ꚍ", <<"Ꚍ">>>>, <<"ꚏ", <<"Ꚏ">>>>,
     <<"ꚑ", <<"Ꚑ">>>>, <<"ꚓ", <<"Ꚓ">>>>, <<"ꚕ", <<"Ꚕ">>>>,
     <<"ꚗ", <<"Ꚗ">>>>, <<"ꚙ", <<"Ꚙ">>>>, <<"ꚛ", <<"Ꚛ">>>>,
     <<"U+A723", <<"U+A722">>>>, <<"U+A725", <<"U+A724">>>>,
     <<"U+A727", <<"U+A726">>>>, <<"U+A729", <<"U+A728">>>>,
     <<"U+A72B", <<"U+A72A">>>>, <<"U+A72D", <<"U+A72C">>>>,
     <<"U+A72F", <<"U+A72E">>>>, <<"U+A733", <<"U+A732">>>>,
     <<"U+A735", <<"U+A734">>>>, <<"U+A737", <<"U+A736">>>>,
     <<"U+A739", <<"U+A738">>>>, <<"U+A73B", <<"U+A73A">>>>,
     <<"U+A73D", <<"U+A73C">>>>, <<"U+A73F", <<"U+A73E">>>>,
     <<"U+A741", <<"U+A740">>>>, <<"U+A743", <<"U+A742">>>>,
     <<"U+A745", <<"U+A744">>>>, <<"U+A747", <<"U+A746">>>>,
     <<"U+A749", <<"U+A748">>>>, <<"U+A74B", <<"U+A74A">>>>,
     <<"U+A74D", <<"U+A74C">>>>, <<"U+A74F", <<"U+A74E">>>>,
     <<"U+A751", <<"U+A750">>>>, <<"U+A753", <<"U+A752">>>>,
     <<"U+A755", <<"U+A754">>>>, <<"U+A757", <<"U+A756">>>>,
     <<"U+A759", <<"U+A758">>>>, <<"U+A75B", <<"U+A75A">>>>,
     <<"U+A75D", <<"U+A75C">>>>, <<"U+A75F", <<"U+A75E">>>>,
     <<"U+A761", <<"U+A760">>>>, <<"U+A763", <<"U+A762">>>>,
     <<"U+A765", <<"U+A764">>>>, <<"U+A767", <<"U+A766">>>>,
     <<"U+A769", <<"U+A768">>>>, <<"U+A76B", <<"U+A76A">>>>,
     <<"U+A76D", <<"U+A76C">>>>, <<"U+A76F", <<"U+A76E">>>>,
     <<"U+A77A", <<"U+A779">>>>, <<"U+A77C", <<"U+A77B">>>>,
     <<"U+A77F", <<"U+A77E">>>>, <<"ꞁ", <<"Ꞁ">>>>, <<"ꞃ", <<"Ꞃ">>>>,
     <<"ꞅ", <<"Ꞅ">>>>, <<"ꞇ", <<"Ꞇ">>>>, <<"ꞌ", <<"Ꞌ">>>>,
     <<"ꞑ", <<"Ꞑ">>>>, <<"ꞓ", <<"Ꞓ">>>>, <<"ꞔ", <<"Ꞔ">>>>,
     <<"ꞗ", <<"Ꞗ">>>>, <<"ꞙ", <<"Ꞙ">>>>, <<"ꞛ", <<"Ꞛ">>>>,
     <<"ꞝ", <<"Ꞝ">>>>, <<"ꞟ", <<"Ꞟ">>>>, <<"ꞡ", <<"Ꞡ">>>>,
     <<"ꞣ", <<"Ꞣ">>>>, <<"ꞥ", <<"Ꞥ">>>>, <<"ꞧ", <<"Ꞧ">>>>,
     <<"ꞩ", <<"Ꞩ">>>>, <<"ꞵ", <<"Ꞵ">>>>, <<"ꞷ", <<"Ꞷ">>>>,
     <<"ꞹ", <<"Ꞹ">>>>, <<"ꞻ", <<"Ꞻ">>>>, <<"ꞽ", <<"Ꞽ">>>>,
     <<"ꞿ", <<"Ꞿ">>>>, <<"ꟁ", <<"Ꟁ">>>>, <<"ꟃ", <<"Ꟃ">>>>,
     <<"ꟈ", <<"Ꟈ">>>>, <<"ꟊ", <<"Ꟊ">>>>, <<"ꟑ", <<"Ꟑ">>>>,
     <<"ꟗ", <<"Ꟗ">>>>, <<"ꟙ", <<"Ꟙ">>>>, <<"ꟶ", <<"Ꟶ">>>>,
     <<"U+AB53", <<"Ꭓ">>>>, <<"U+AB70", <<"Ꭰ">>>>, <<"U+AB71", <<"Ꭱ">>>>,
     <<"U+AB72", <<"Ꭲ">>>>, <<"U+AB73", <<"Ꭳ">>>>, <<"U+AB74", <<"Ꭴ">>>>,
     <<"U+AB75", <<"Ꭵ">>>>, <<"U+AB76", <<"Ꭶ">>>>, <<"U+AB77", <<"Ꭷ">>>>,
     <<"U+AB78", <<"Ꭸ">>>>, <<"U+AB79", <<"Ꭹ">>>>, <<"U+AB7A", <<"Ꭺ">>>>,
     <<"U+AB7B", <<"Ꭻ">>>>, <<"U+AB7C", <<"Ꭼ">>>>, <<"U+AB7D", <<"Ꭽ">>>>,
     <<"U+AB7E", <<"Ꭾ">>>>, <<"U+AB7F", <<"Ꭿ">>>>, <<"ꮀ", <<"Ꮀ">>>>,
     <<"ꮁ", <<"Ꮁ">>>>, <<"ꮂ", <<"Ꮂ">>>>, <<"ꮃ", <<"Ꮃ">>>>,
     <<"ꮄ", <<"Ꮄ">>>>, <<"ꮅ", <<"Ꮅ">>>>, <<"ꮆ", <<"Ꮆ">>>>,
     <<"ꮇ", <<"Ꮇ">>>>, <<"ꮈ", <<"Ꮈ">>>>, <<"ꮉ", <<"Ꮉ">>>>,
     <<"ꮊ", <<"Ꮊ">>>>, <<"ꮋ", <<"Ꮋ">>>>, <<"ꮌ", <<"Ꮌ">>>>,
     <<"ꮍ", <<"Ꮍ">>>>, <<"ꮎ", <<"Ꮎ">>>>, <<"ꮏ", <<"Ꮏ">>>>,
     <<"ꮐ", <<"Ꮐ">>>>, <<"ꮑ", <<"Ꮑ">>>>, <<"ꮒ", <<"Ꮒ">>>>,
     <<"ꮓ", <<"Ꮓ">>>>, <<"ꮔ", <<"Ꮔ">>>>, <<"ꮕ", <<"Ꮕ">>>>,
     <<"ꮖ", <<"Ꮖ">>>>, <<"ꮗ", <<"Ꮗ">>>>, <<"ꮘ", <<"Ꮘ">>>>,
     <<"ꮙ", <<"Ꮙ">>>>, <<"ꮚ", <<"Ꮚ">>>>, <<"ꮛ", <<"Ꮛ">>>>,
     <<"ꮜ", <<"Ꮜ">>>>, <<"ꮝ", <<"Ꮝ">>>>, <<"ꮞ", <<"Ꮞ">>>>,
     <<"ꮟ", <<"Ꮟ">>>>, <<"ꮠ", <<"Ꮠ">>>>, <<"ꮡ", <<"Ꮡ">>>>,
     <<"ꮢ", <<"Ꮢ">>>>, <<"ꮣ", <<"Ꮣ">>>>, <<"ꮤ", <<"Ꮤ">>>>,
     <<"ꮥ", <<"Ꮥ">>>>, <<"ꮦ", <<"Ꮦ">>>>, <<"ꮧ", <<"Ꮧ">>>>,
     <<"ꮨ", <<"Ꮨ">>>>, <<"ꮩ", <<"Ꮩ">>>>, <<"ꮪ", <<"Ꮪ">>>>,
     <<"ꮫ", <<"Ꮫ">>>>, <<"ꮬ", <<"Ꮬ">>>>, <<"ꮭ", <<"Ꮭ">>>>,
     <<"ꮮ", <<"Ꮮ">>>>, <<"ꮯ", <<"Ꮯ">>>>, <<"ꮰ", <<"Ꮰ">>>>,
     <<"ꮱ", <<"Ꮱ">>>>, <<"ꮲ", <<"Ꮲ">>>>, <<"ꮳ", <<"Ꮳ">>>>,
     <<"ꮴ", <<"Ꮴ">>>>, <<"ꮵ", <<"Ꮵ">>>>, <<"ꮶ", <<"Ꮶ">>>>,
     <<"ꮷ", <<"Ꮷ">>>>, <<"ꮸ", <<"Ꮸ">>>>, <<"ꮹ", <<"Ꮹ">>>>,
     <<"ꮺ", <<"Ꮺ">>>>, <<"ꮻ", <<"Ꮻ">>>>, <<"ꮼ", <<"Ꮼ">>>>,
     <<"ꮽ", <<"Ꮽ">>>>, <<"ꮾ", <<"Ꮾ">>>>, <<"ꮿ", <<"Ꮿ">>>>,
     <<"U+FB00", <<"F", "F">>>>, <<"U+FB01", <<"F", "I">>>>,
     <<"U+FB02", <<"F", "L">>>>, <<"U+FB03", <<"F", "F", "I">>>>,
     <<"U+FB04", <<"F", "F", "L">>>>, <<"U+FB05", <<"S", "T">>>>,
     <<"U+FB06", <<"S", "T">>>>, <<"U+FB13", <<"U+0544", "U+0546">>>>,
     <<"U+FB14", <<"U+0544", "U+0535">>>>,
     <<"U+FB15", <<"U+0544", "U+053B">>>>,
     <<"U+FB16", <<"U+054E", "U+0546">>>>,
     <<"U+FB17", <<"U+0544", "U+053D">>>>, <<"U+FF41", <<"U+FF21">>>>,
     <<"U+FF42", <<"U+FF22">>>>, <<"U+FF43", <<"U+FF23">>>>,
     <<"U+FF44", <<"U+FF24">>>>, <<"U+FF45", <<"U+FF25">>>>,
     <<"U+FF46", <<"U+FF26">>>>, <<"U+FF47", <<"U+FF27">>>>,
     <<"U+FF48", <<"U+FF28">>>>, <<"U+FF49", <<"U+FF29">>>>,
     <<"U+FF4A", <<"U+FF2A">>>>, <<"U+FF4B", <<"U+FF2B">>>>,
     <<"U+FF4C", <<"U+FF2C">>>>, <<"U+FF4D", <<"U+FF2D">>>>,
     <<"U+FF4E", <<"U+FF2E">>>>, <<"U+FF4F", <<"U+FF2F">>>>,
     <<"U+FF50", <<"U+FF30">>>>, <<"U+FF51", <<"U+FF31">>>>,
     <<"U+FF52", <<"U+FF32">>>>, <<"U+FF53", <<"U+FF33">>>>,
     <<"U+FF54", <<"U+FF34">>>>, <<"U+FF55", <<"U+FF35">>>>,
     <<"U+FF56", <<"U+FF36">>>>, <<"U+FF57", <<"U+FF37">>>>,
     <<"U+FF58", <<"U+FF38">>>>, <<"U+FF59", <<"U+FF39">>>>,
     <<"U+FF5A", <<"U+FF3A">>>>, <<"U+10428", <<"U+10400">>>>,
     <<"U+10429", <<"U+10401">>>>, <<"U+1042A", <<"U+10402">>>>,
     <<"U+1042B", <<"U+10403">>>>, <<"U+1042C", <<"U+10404">>>>,
     <<"U+1042D", <<"U+10405">>>>, <<"U+1042E", <<"U+10406">>>>,
     <<"U+1042F", <<"U+10407">>>>, <<"U+10430", <<"U+10408">>>>,
     <<"U+10431", <<"U+10409">>>>, <<"U+10432", <<"U+1040A">>>>,
     <<"U+10433", <<"U+1040B">>>>, <<"U+10434", <<"U+1040C">>>>,
     <<"U+10435", <<"U+1040D">>>>, <<"U+10436", <<"U+1040E">>>>,
     <<"U+10437", <<"U+1040F">>>>, <<"U+10438", <<"U+10410">>>>,
     <<"U+10439", <<"U+10411">>>>, <<"U+1043A", <<"U+10412">>>>,
     <<"U+1043B", <<"U+10413">>>>, <<"U+1043C", <<"U+10414">>>>,
     <<"U+1043D", <<"U+10415">>>>, <<"U+1043E", <<"U+10416">>>>,
     <<"U+1043F", <<"U+10417">>>>, <<"U+10440", <<"U+10418">>>>,
     <<"U+10441", <<"U+10419">>>>, <<"U+10442", <<"U+1041A">>>>,
     <<"U+10443", <<"U+1041B">>>>, <<"U+10444", <<"U+1041C">>>>,
     <<"U+10445", <<"U+1041D">>>>, <<"U+10446", <<"U+1041E">>>>,
     <<"U+10447", <<"U+1041F">>>>, <<"U+10448", <<"U+10420">>>>,
     <<"U+10449", <<"U+10421">>>>, <<"U+1044A", <<"U+10422">>>>,
     <<"U+1044B", <<"U+10423">>>>, <<"U+1044C", <<"U+10424">>>>,
     <<"U+1044D", <<"U+10425">>>>, <<"U+1044E", <<"U+10426">>>>,
     <<"U+1044F", <<"U+10427">>>>, <<"U+104D8", <<"U+104B0">>>>,
     <<"U+104D9", <<"U+104B1">>>>, <<"U+104DA", <<"U+104B2">>>>,
     <<"U+104DB", <<"U+104B3">>>>, <<"U+104DC", <<"U+104B4">>>>,
     <<"U+104DD", <<"U+104B5">>>>, <<"U+104DE", <<"U+104B6">>>>,
     <<"U+104DF", <<"U+104B7">>>>, <<"U+104E0", <<"U+104B8">>>>,
     <<"U+104E1", <<"U+104B9">>>>, <<"U+104E2", <<"U+104BA">>>>,
     <<"U+104E3", <<"U+104BB">>>>, <<"U+104E4", <<"U+104BC">>>>,
     <<"U+104E5", <<"U+104BD">>>>, <<"U+104E6", <<"U+104BE">>>>,
     <<"U+104E7", <<"U+104BF">>>>, <<"U+104E8", <<"U+104C0">>>>,
     <<"U+104E9", <<"U+104C1">>>>, <<"U+104EA", <<"U+104C2">>>>,
     <<"U+104EB", <<"U+104C3">>>>, <<"U+104EC", <<"U+104C4">>>>,
     <<"U+104ED", <<"U+104C5">>>>, <<"U+104EE", <<"U+104C6">>>>,
     <<"U+104EF", <<"U+104C7">>>>, <<"U+104F0", <<"U+104C8">>>>,
     <<"U+104F1", <<"U+104C9">>>>, <<"U+104F2", <<"U+104CA">>>>,
     <<"U+104F3", <<"U+104CB">>>>, <<"U+104F4", <<"U+104CC">>>>,
     <<"U+104F5", <<"U+104CD">>>>, <<"U+104F6", <<"U+104CE">>>>,
     <<"U+104F7", <<"U+104CF">>>>, <<"U+104F8", <<"U+104D0">>>>,
     <<"U+104F9", <<"U+104D1">>>>, <<"U+104FA", <<"U+104D2">>>>,
     <<"U+104FB", <<"U+104D3">>>>, <<"U+10597", <<"U+10570">>>>,
     <<"U+10598", <<"U+10571">>>>, <<"U+10599", <<"U+10572">>>>,
     <<"U+1059A", <<"U+10573">>>>, <<"U+1059B", <<"U+10574">>>>,
     <<"U+1059C", <<"U+10575">>>>, <<"U+1059D", <<"U+10576">>>>,
     <<"U+1059E", <<"U+10577">>>>, <<"U+1059F", <<"U+10578">>>>,
     <<"U+105A0", <<"U+10579">>>>, <<"U+105A1", <<"U+1057A">>>>,
     <<"U+105A3", <<"U+1057C">>>>, <<"U+105A4", <<"U+1057D">>>>,
     <<"U+105A5", <<"U+1057E">>>>, <<"U+105A6", <<"U+1057F">>>>,
     <<"U+105A7", <<"U+10580">>>>, <<"U+105A8", <<"U+10581">>>>,
     <<"U+105A9", <<"U+10582">>>>, <<"U+105AA", <<"U+10583">>>>,
     <<"U+105AB", <<"U+10584">>>>, <<"U+105AC", <<"U+10585">>>>,
     <<"U+105AD", <<"U+10586">>>>, <<"U+105AE", <<"U+10587">>>>,
     <<"U+105AF", <<"U+10588">>>>, <<"U+105B0", <<"U+10589">>>>,
     <<"U+105B1", <<"U+1058A">>>>, <<"U+105B3", <<"U+1058C">>>>,
     <<"U+105B4", <<"U+1058D">>>>, <<"U+105B5", <<"U+1058E">>>>,
     <<"U+105B6", <<"U+1058F">>>>, <<"U+105B7", <<"U+10590">>>>,
     <<"U+105B8", <<"U+10591">>>>, <<"U+105B9", <<"U+10592">>>>,
     <<"U+105BB", <<"U+10594">>>>, <<"U+105BC", <<"U+10595">>>>,
     <<"U+10CC0", <<"U+10C80">>>>, <<"U+10CC1", <<"U+10C81">>>>,
     <<"U+10CC2", <<"U+10C82">>>>, <<"U+10CC3", <<"U+10C83">>>>,
     <<"U+10CC4", <<"U+10C84">>>>, <<"U+10CC5", <<"U+10C85">>>>,
     <<"U+10CC6", <<"U+10C86">>>>, <<"U+10CC7", <<"U+10C87">>>>,
     <<"U+10CC8", <<"U+10C88">>>>, <<"U+10CC9", <<"U+10C89">>>>,
     <<"U+10CCA", <<"U+10C8A">>>>, <<"U+10CCB", <<"U+10C8B">>>>,
     <<"U+10CCC", <<"U+10C8C">>>>, <<"U+10CCD", <<"U+10C8D">>>>,
     <<"U+10CCE", <<"U+10C8E">>>>, <<"U+10CCF", <<"U+10C8F">>>>,
     <<"U+10CD0", <<"U+10C90">>>>, <<"U+10CD1", <<"U+10C91">>>>,
     <<"U+10CD2", <<"U+10C92">>>>, <<"U+10CD3", <<"U+10C93">>>>,
     <<"U+10CD4", <<"U+10C94">>>>, <<"U+10CD5", <<"U+10C95">>>>,
     <<"U+10CD6", <<"U+10C96">>>>, <<"U+10CD7", <<"U+10C97">>>>,
     <<"U+10CD8", <<"U+10C98">>>>, <<"U+10CD9", <<"U+10C99">>>>,
     <<"U+10CDA", <<"U+10C9A">>>>, <<"U+10CDB", <<"U+10C9B">>>>,
     <<"U+10CDC", <<"U+10C9C">>>>, <<"U+10CDD", <<"U+10C9D">>>>,
     <<"U+10CDE", <<"U+10C9E">>>>, <<"U+10CDF", <<"U+10C9F">>>>,
     <<"U+10CE0", <<"U+10CA0">>>>, <<"U+10CE1", <<"U+10CA1">>>>,
     <<"U+10CE2", <<"U+10CA2">>>>, <<"U+10CE3", <<"U+10CA3">>>>,
     <<"U+10CE4", <<"U+10CA4">>>>, <<"U+10CE5", <<"U+10CA5">>>>,
     <<"U+10CE6", <<"U+10CA6">>>>, <<"U+10CE7", <<"U+10CA7">>>>,
     <<"U+10CE8", <<"U+10CA8">>>>, <<"U+10CE9", <<"U+10CA9">>>>,
     <<"U+10CEA", <<"U+10CAA">>>>, <<"U+10CEB", <<"U+10CAB">>>>,
     <<"U+10CEC", <<"U+10CAC">>>>, <<"U+10CED", <<"U+10CAD">>>>,
     <<"U+10CEE", <<"U+10CAE">>>>, <<"U+10CEF", <<"U+10CAF">>>>,
     <<"U+10CF0", <<"U+10CB0">>>>, <<"U+10CF1", <<"U+10CB1">>>>,
     <<"U+10CF2", <<"U+10CB2">>>>, <<"U+118C0", <<"U+118A0">>>>,
     <<"U+118C1", <<"U+118A1">>>>, <<"U+118C2", <<"U+118A2">>>>,
     <<"U+118C3", <<"U+118A3">>>>, <<"U+118C4", <<"U+118A4">>>>,
     <<"U+118C5", <<"U+118A5">>>>, <<"U+118C6", <<"U+118A6">>>>,
     <<"U+118C7", <<"U+118A7">>>>, <<"U+118C8", <<"U+118A8">>>>,
     <<"U+118C9", <<"U+118A9">>>>, <<"U+118CA", <<"U+118AA">>>>,
     <<"U+118CB", <<"U+118AB">>>>, <<"U+118CC", <<"U+118AC">>>>,
     <<"U+118CD", <<"U+118AD">>>>, <<"U+118CE", <<"U+118AE">>>>,
     <<"U+118CF", <<"U+118AF">>>>, <<"U+118D0", <<"U+118B0">>>>,
     <<"U+118D1", <<"U+118B1">>>>, <<"U+118D2", <<"U+118B2">>>>,
     <<"U+118D3", <<"U+118B3">>>>, <<"U+118D4", <<"U+118B4">>>>,
     <<"U+118D5", <<"U+118B5">>>>, <<"U+118D6", <<"U+118B6">>>>,
     <<"U+118D7", <<"U+118B7">>>>, <<"U+118D8", <<"U+118B8">>>>,
     <<"U+118D9", <<"U+118B9">>>>, <<"U+118DA", <<"U+118BA">>>>,
     <<"U+118DB", <<"U+118BB">>>>, <<"U+118DC", <<"U+118BC">>>>,
     <<"U+118DD", <<"U+118BD">>>>, <<"U+118DE", <<"U+118BE">>>>,
     <<"U+118DF", <<"U+118BF">>>>, <<"U+16E60", <<"U+16E40">>>>,
     <<"U+16E61", <<"U+16E41">>>>, <<"U+16E62", <<"U+16E42">>>>,
     <<"U+16E63", <<"U+16E43">>>>, <<"U+16E64", <<"U+16E44">>>>,
     <<"U+16E65", <<"U+16E45">>>>, <<"U+16E66", <<"U+16E46">>>>,
     <<"U+16E67", <<"U+16E47">>>>, <<"U+16E68", <<"U+16E48">>>>,
     <<"U+16E69", <<"U+16E49">>>>, <<"U+16E6A", <<"U+16E4A">>>>,
     <<"U+16E6B", <<"U+16E4B">>>>, <<"U+16E6C", <<"U+16E4C">>>>,
     <<"U+16E6D", <<"U+16E4D">>>>, <<"U+16E6E", <<"U+16E4E">>>>,
     <<"U+16E6F", <<"U+16E4F">>>>, <<"U+16E70", <<"U+16E50">>>>,
     <<"U+16E71", <<"U+16E51">>>>, <<"U+16E72", <<"U+16E52">>>>,
     <<"U+16E73", <<"U+16E53">>>>, <<"U+16E74", <<"U+16E54">>>>,
     <<"U+16E75", <<"U+16E55">>>>, <<"U+16E76", <<"U+16E56">>>>,
     <<"U+16E77", <<"U+16E57">>>>, <<"U+16E78", <<"U+16E58">>>>,
     <<"U+16E79", <<"U+16E59">>>>, <<"U+16E7A", <<"U+16E5A">>>>,
     <<"U+16E7B", <<"U+16E5B">>>>, <<"U+16E7C", <<"U+16E5C">>>>,
     <<"U+16E7D", <<"U+16E5D">>>>, <<"U+16E7E", <<"U+16E5E">>>>,
     <<"U+16E7F", <<"U+16E5F">>>>, <<"U+1E922", <<"U+1E900">>>>,
     <<"U+1E923", <<"U+1E901">>>>, <<"U+1E924", <<"U+1E902">>>>,
     <<"U+1E925", <<"U+1E903">>>>, <<"U+1E926", <<"U+1E904">>>>,
     <<"U+1E927", <<"U+1E905">>>>, <<"U+1E928", <<"U+1E906">>>>,
     <<"U+1E929", <<"U+1E907">>>>, <<"U+1E92A", <<"U+1E908">>>>,
     <<"U+1E92B", <<"U+1E909">>>>, <<"U+1E92C", <<"U+1E90A">>>>,
     <<"U+1E92D", <<"U+1E90B">>>>, <<"U+1E92E", <<"U+1E90C">>>>,
     <<"U+1E92F", <<"U+1E90D">>>>, <<"U+1E930", <<"U+1E90E">>>>,
     <<"U+1E931", <<"U+1E90F">>>>, <<"U+1E932", <<"U+1E910">>>>,
     <<"U+1E933", <<"U+1E911">>>>, <<"U+1E934", <<"U+1E912">>>>,
     <<"U+1E935", <<"U+1E913">>>>, <<"U+1E936", <<"U+1E914">>>>,
     <<"U+1E937", <<"U+1E915">>>>, <<"U+1E938", <<"U+1E916">>>>,
     <<"U+1E939", <<"U+1E917">>>>, <<"U+1E93A", <<"U+1E918">>>>,
     <<"U+1E93B", <<"U+1E919">>>>, <<"U+1E93C", <<"U+1E91A">>>>,
     <<"U+1E93D", <<"U+1E91B">>>>, <<"U+1E93E", <<"U+1E91C">>>>,
     <<"U+1E93F", <<"U+1E91D">>>>, <<"U+1E940", <<"U+1E91E">>>>,
     <<"U+1E941", <<"U+1E91F">>>>, <<"U+1E942", <<"U+1E920">>>>,
     <<"U+1E943", <<"U+1E921">>>>}

\* The characters of UpperPairs.
UpperKeys == {pr[1] : pr \in UpperPairs}

\* Upper case of a-z; other characters stay.
AsciiUpperChar(c) ==
    IF \E i \in 1..26 : LowerLetters[i] = c
    THEN UpperLetters[CHOOSE i \in 1..26 : LowerLetters[i] = c]
    ELSE c

\* str.upper() on one character.
UpperChar(c) ==
    IF c \in UpperKeys
    THEN (CHOOSE pr \in UpperPairs : pr[1] = c)[2]
    ELSE <<AsciiUpperChar(c)>>

\* str.upper()
RECURSIVE Upper(_)
Upper(s) == IF s = <<>> THEN <<>> ELSE UpperChar(Head(s)) \o Upper(Tail(s))

\* str.lstrip() / str.rstrip() / str.strip()
RECURSIVE LStrip(_)
LStrip(s) ==
    IF s # <<>> /\ Head(s) \in Whitespace THEN LStrip(Tail(s)) ELSE s

RECURSIVE RStrip(_)
RStrip(s) ==
    IF s # <<>> /\ s[Len(s)] \in Whitespace
    THEN RStrip(SubSeq(s, 1, Len(s) - 1))
    ELSE s

Strip(s) == RStrip(LStrip(s))

\* The decimal digits (category Nd) outside 0-9 that Decimal reads, one row
\* per script, each row in the order 0 to 9.
UnicodeDigits ==
    <<<<"U+0660","U+0661","U+0662","U+0663","U+0664","U+0665","U+0666","U+0667","U+0668","U+0669">>,
      <<"۰","۱","۲","۳","۴","۵","۶","۷","۸","۹">>,
      <<"߀","߁","߂","߃","߄","߅","߆","߇","߈","߉">>,
      <<"U+0966","U+0967","U+0968","U+0969","U+096A","U+096B","U+096C","U+096D","U+096E","U+096F">>,
      <<"০","১","২","৩","৪","৫","৬","৭","৮","৯">>,
      <<"U+0A66","U+0A67","U+0A68","U+0A69","U+0A6A","U+0A6B","U+0A6C","U+0A6D","U+0A6E","U+0A6F">>,
      <<"૦","૧","૨","૩","૪","૫","૬","૭","૮","૯">>,
      <<"U+0B66","U+0B67","U+0B68","U+0B69","U+0B6A","U+0B6B","U+0B6C","U+0B6D","U+0B6E","U+0B6F">>,
      <<"௦","௧","௨","௩","௪","௫","௬","௭","௮","௯">>,
      <<"U+0C66","U+0C67","U+0C68","U+0C69","U+0C6A","U+0C6B","U+0C6C","U+0C6D","U+0C6E","U+0C6F">>,
      <<"೦","೧","೨","೩","೪","೫","೬","೭","೮","೯">>,
      <<"U+0D66","U+0D67","U+0D68","U+0D69","U+0D6A","U+0D6B","U+0D6C","U+0D6D","U+0D6E","U+0D6F">>,
      <<"෦","෧","෨","෩","෪","෫","෬","෭","෮","෯">>,
      <<"U+0E50","U+0E51","U+0E52","U+0E53","U+0E54","U+0E55","U+0E56","U+0E57","U+0E58","U+0E59">>,
      <<"໐","໑","໒","໓","໔","໕","໖","໗","໘","໙">>,
      <<"U+0F20","U+0F21","U+0F22","U+0F23","U+0F24","U+0F25","U+0F26","U+0F27","U+0F28","U+0F29">>,
      <<"U+1040","U+1041","U+1042","U+1043","U+1044","U+1045","U+1046","U+1047","U+1048","U+1049">>,
      <<"႐","႑","႒","႓","႔","႕","႖","႗","႘","႙">>,
      <<"០","១","២","៣","៤","៥","៦","៧","៨","៩">>,
      <<"U+1810","U+1811","U+1812","U+1813","U+1814","U+1815","U+1816","U+1817","U+1818","U+1819">>,
      <<"U+1946","U+1947","U+1948","U+1949","U+194A","U+194B","U+194C","U+194D","U+194E","U+194F">>,
      <<"᧐","᧑","᧒","᧓","᧔","᧕","᧖","᧗","᧘","᧙">>,
      <<"᪀","᪁","᪂","᪃","᪄","᪅","᪆","᪇","᪈","᪉">>,
      <<"᪐","᪑","᪒","᪓","᪔","᪕","᪖","᪗","᪘","᪙">>,
      <<"U+1B50","U+1B51","U+1B52","U+1B53","U+1B54","U+1B55","U+1B56","U+1B57","U+1B58","U+1B59">>,
      <<"᮰","᮱","᮲","᮳","᮴","᮵","᮶","᮷","᮸","᮹">>,
      <<"U+1C40","U+1C41","U+1C42","U+1C43","U+1C44","U+1C45","U+1C46","U+1C47","U+1C48","U+1C49">>,
      <<"U+1C50","U+1C51","U+1C52","U+1C53","U+1C54","U+1C55","U+1C56","U+1C57","U+1C58","U+1C59">>,
      <<"U+A620","U+A621","U+A622","U+A623","U+A624","U+A625","U+A626","U+A627","U+A628","U+A629">>,
      <<"꣐","꣑","꣒","꣓","꣔","꣕","꣖","꣗","꣘","꣙">>,
      <<"U+A900","U+A901","U+A902","U+A903","U+A904","U+A905","U+A906","U+A907","U+A908","U+A909">>,
      <<"꧐","꧑","꧒","꧓","꧔","꧕","꧖","꧗","꧘","꧙">>,
      <<"꧰","꧱","꧲","꧳","꧴","꧵","꧶","꧷","꧸","꧹">>,
      <<"U+AA50","U+AA51","U+AA52","U+AA53","U+AA54","U+AA55","U+AA56","U+AA57","U+AA58","U+AA59">>,
      <<"꯰","꯱","꯲","꯳","꯴","꯵","꯶","꯷","꯸","꯹">>,
      <<"U+FF10","U+FF11","U+FF12","U+FF13","U+FF14","U+FF15","U+FF16","U+FF17","U+FF18","U+FF19">>,
      <<"U+104A0","U+104A1","U+104A2","U+104A3","U+104A4","U+104A5","U+104A6","U+104A7","U+104A8","U+104A9">>,
      <<"U+10D30","U+10D31","U+10D32","U+10D33","U+10D34","U+10D35","U+10D36","U+10D37","U+10D38","U+10D39">>,
      <<"U+11066","U+11067","U+11068","U+11069","U+1106A","U+1106B","U+1106C","U+1106D","U+1106E","U+1106F">>,
      <<"U+110F0","U+110F1","U+110F2","U+110F3","U+110F4","U+110F5","U+110F6","U+110F7","U+110F8","U+110F9">>,
      <<"U+11136","U+11137","U+11138","U+11139","U+1113A","U+1113B","U+1113C","U+1113D","U+1113E","U+1113F">>,
      <<"U+111D0","U+111D1","U+111D2","U+111D3","U+111D4","U+111D5","U+111D6","U+111D7","U+111D8","U+111D9">>,
      <<"U+112F0","U+112F1","U+112F2","U+112F3","U+112F4","U+112F5","U+112F6","U+112F7","U+112F8","U+112F9">>,
      <<"U+11450","U+11451","U+11452","U+11453","U+11454","U+11455","U+11456","U+11457","U+11458","U+11459">>,
      <<"U+114D0","U+114D1","U+114D2","U+114D3","U+114D4","U+114D5","U+114D6","U+114D7","U+114D8","U+114D9">>,
      <<"U+11650","U+11651","U+11652","U+11653","U+11654","U+11655","U+11656","U+11657","U+11658","U+11659">>,
      <<"U+116C0","U+116C1","U+116C2","U+116C3","U+116C4","U+116C5","U+116C6","U+116C7","U+116C8","U+116C9">>,
      <<"U+11730","U+11731","U+11732","U+11733","U+11734","U+11735","U+11736","U+11737","U+11738","U+11739">>,
      <<"U+118E0","U+118E1","U+118E2","U+118E3","U+118E4","U+118E5","U+118E6","U+118E7","U+118E8","U+118E9">>,
      <<"U+11950","U+11951","U+11952","U+11953","U+11954","U+11955","U+11956","U+11957","U+11958","U+11959">>,
      <<"U+11C50","U+11C51","U+11C52","U+11C53","U+11C54","U+11C55","U+11C56","U+11C57","U+11C58","U+11C59">>,
      <<"U+11D50","U+11D51","U+11D52","U+11D53","U+11D54","U+11D55","U+11D56","U+11D57","U+11D58","U+11D59">>,
      <<"U+11DA0","U+11DA1","U+11DA2","U+11DA3","U+11DA4","U+11DA5","U+11DA6","U+11DA7","U+11DA8","U+11DA9">>,
      <<"U+16A60","U+16A61","U+16A62","U+16A63","U+16A64","U+16A65","U+16A66","U+16A67","U+16A68","U+16A69">>,
      <<"U+16AC0","U+16AC1","U+16AC2","U+16AC3","U+16AC4","U+16AC5","U+16AC6","U+16AC7","U+16AC8","U+16AC9">>,
      <<"U+16B50","U+16B51","U+16B52","U+16B53","U+16B54","U+16B55","U+16B56","U+16B57","U+16B58","U+16B59">>,
      <<"U+1D7CE","U+1D7CF","U+1D7D0","U+1D7D1","U+1D7D2","U+1D7D3","U+1D7D4","U+1D7D5","U+1D7D6","U+1D7D7">>,
      <<"U+1D7D8","U+1D7D9","U+1D7DA","U+1D7DB","U+1D7DC","U+1D7DD","U+1D7DE","U+1D7DF","U+1D7E0","U+1D7E1">>,
      <<"U+1D7E2","U+1D7E3","U+1D7E4","U+1D7E5","U+1D7E6","U+1D7E7","U+1D7E8","U+1D7E9","U+1D7EA","U+1D7EB">>,
      <<"U+1D7EC","U+1D7ED","U+1D7EE","U+1D7EF","U+1D7F0","U+1D7F1","U+1D7F2","U+1D7F3","U+1D7F4","U+1D7F5">>,
      <<"U+1D7F6","U+1D7F7","U+1D7F8","U+1D7F9","U+1D7FA","U+1D7FB","U+1D7FC","U+1D7FD","U+1D7FE","U+1D7FF">>,
      <<"U+1E140","U+1E141","U+1E142","U+1E143","U+1E144","U+1E145","U+1E146","U+1E147","U+1E148","U+1E149">>,
      <<"U+1E2F0","U+1E2F1","U+1E2F2","U+1E2F3","U+1E2F4","U+1E2F5","U+1E2F6","U+1E2F7","U+1E2F8","U+1E2F9">>,
      <<"U+1E950","U+1E951","U+1E952","U+1E953","U+1E954","U+1E955","U+1E956","U+1E957","U+1E958","U+1E959">>,
      <<"U+1FBF0","U+1FBF1","U+1FBF2","U+1FBF3","U+1FBF4","U+1FBF5","U+1FBF6","U+1FBF7","U+1FBF8","U+1FBF9">>>>

IsDigit(c) ==
    \/ \E i \in 1..10 : Digits[i] = c
    \/ \E r \in 1..Len(UnicodeDigits) : \E i \in 1..10 : UnicodeDigits[r][i] = c

DigitVal(c) ==
    IF \E i \in 1..10 : Digits[i] = c
    THEN (CHOOSE i \in 1..10 : Digits[i] = c) - 1
    ELSE (CHOOSE i \in 1..10 :
             \E r \in 1..Len(UnicodeDigits) : UnicodeDigits[r][i] = c) - 1

AllDigits(s) == \A i \in 1..Len(s) : IsDigit(s[i])

\* str() of a natural number.
RECURSIVE NatToStr(_)
NatToStr(n) ==
    IF n < 10 THEN <<Digits[n + 1]>>
    ELSE NatToStr(n \div 10) \o <<Digits[(n % 10) + 1]>>

\* The digits of -n for a negative n, computed without negating n.
RECURSIVE NegToStr(_)
NegToStr(n) ==
    IF n > -10 THEN <<Digits[(0 - n) + 1]>>
    ELSE LET r == (10 - (n % 10)) % 10
         IN  NegToStr((n + r) \div 10) \o <<Digits[r + 1]>>

\* str() of an int.
IntToStr(n) == IF n < 0 THEN <<"-">> \o NegToStr(n) ELSE NatToStr(n)

-----------------------------------------------------------------------------
(* Integers of any size *)

\* The coefficient and the exponent of a Decimal are Python ints, which have
\* no largest value.  Such an int is held as str() writes it: its digits
\* 0-9 without leading zeros, after "-" when it is negative.

\* The digits of s, of any script, as 0-9.
AsciiDigits(s) == [i \in 1..Len(s) |-> Digits[DigitVal(s[i]) + 1]]

\* s without its leading zeros; "0" when nothing else is left.
RECURSIVE StripZeros(_)
StripZeros(s) ==
    IF s = <<>> THEN <<"0">>
    ELSE IF Len(s) > 1 /\ Head(s) = "0" THEN StripZeros(Tail(s))
    ELSE s

\* int(s) of a digit string; the empty string counts 0.
DigitsToInt(s) == StripZeros(AsciiDigits(s))

IsNegative(x) == Head(x) = "-"
Magnitude(x) == IF IsNegative(x) THEN Tail(x) ELSE x
Signed(neg, m) == IF neg /\ m # <<"0">> THEN <<"-">> \o m ELSE m

\* a < b for two magnitudes.
MagLess(a, b) ==
    \/ Len(a) < Len(b)
    \/ /\ Len(a) = Len(b)
       /\ \E i \in 1..Len(a) :
             /\ DigitVal(a[i]) < DigitVal(b[i])
             /\ \A j \in 1..(i - 1) : a[j] = b[j]

\* a + b + carry for two magnitudes, digit by digit from the right.
RECURSIVE MagAdd(_, _, _)
MagAdd(a, b, carry) ==
    IF a = <<>> /\ b = <<>>
    THEN IF carry = 0 THEN <<>> ELSE <<Digits[carry + 1]>>
    ELSE LET da == IF a = <<>> THEN 0 ELSE DigitVal(a[Len(a)])
             db == IF b = <<>> THEN 0 ELSE DigitVal(b[Len(b)])
             t  == da + db + carry
         IN  MagAdd(SubSeq(a, 1, Len(a) - 1), SubSeq(b, 1, Len(b) - 1),
                    t \div 10) \o <<Digits[(t % 10) + 1]>>

\* a - b - borrow for two magnitudes with a >= b, leading zeros kept.
RECURSIVE MagSub(_, _, _)
MagSub(a, b, borrow) ==
    IF a = <<>> THEN <<>>
    ELSE LET da == DigitVal(a[Len(a)])
             db == IF b = <<>> THEN 0 ELSE DigitVal(b[Len(b)])
             t  == da - db - borrow
         IN  MagSub(SubSeq(a, 1, Len(a) - 1), SubSeq(b, 1, Len(b) - 1),
                    IF t < 0 THEN 1 ELSE 0)
                \o <<Digits[(IF t < 0 THEN t + 10 ELSE t) + 1]>>

\* -x, x + y and x < y.
IntNeg(x) == Signed(~ IsNegative(x), Magnitude(x))

IntAdd(x, y) ==
    IF IsNegative(x) = IsNegative(y)
    THEN Signed(IsNegative(x), MagAdd(Magnitude(x), Magnitude(y), 0))
    ELSE IF MagLess(Magnitude(x), Magnitude(y))
    THEN Signed(IsNegative(y),
                StripZeros(MagSub(Magnitude(y), Magnitude(x), 0)))
    ELSE Signed(IsNegative(x),
                StripZeros(MagSub(Magnitude(x), Magnitude(y), 0)))

IntLess(x, y) ==
    CASE IsNegative(x) /\ ~ IsNegative(y) -> TRUE
      [] ~ IsNegative(x) /\ IsNegative(y) -> FALSE
      [] ~ IsNegative(x) /\ ~ IsNegative(y) ->
             MagLess(Magnitude(x), Magnitude(y))
      [] IsNegative(x) /\ IsNegative(y) ->
             MagLess(Magnitude(y), Magnitude(x))

\* Index of the first occurrence of c in s, 0 when absent.
IndexOf(s, c) ==
    IF \E i \in 1..Len(s) : s[i] = c
    THEN CHOOSE i \in 1..Len(s) : s[i] = c /\ \A j \in 1..(i - 1) : s[j] # c
    ELSE 0

-----------------------------------------------------------------------------
(* JSON values, all of one record shape *)

JStr(s)  == [t |-> "str",  s |-> s,    n |-> 0]
JInt(n)  == [t |-> "int",  s |-> <<>>, n |-> n]
JBool(b) == [t |-> "bool", s |-> <<>>, n |-> IF b THEN 1 ELSE 0]
JNull    == [t |-> "null", s |-> <<>>, n |-> 0]

\* Python str(v) for a JSON value.
PyStr(v) ==
    CASE v.t = "str"  -> v.s
      [] v.t = "int"  -> IntToStr(v.n)
      [] v.t = "bool" -> IF v.n = 1 THEN <<"T","r","u","e">>
                                    ELSE <<"F","a","l","s","e">>
      [] v.t = "null" -> <<"N","o","n","e">>

-----------------------------------------------------------------------------
(* decimal.Decimal *)

\* A Decimal: kind "finite" | "inf" | "nan"; value = (-1)^sign * coef * 10^exp,
\* coef and exp being ints of any size ("0" for an infinity and a NaN).
\* kind "invalid" stands for the InvalidOperation raised by the constructor.
Dec(kind, sign, coef, exp) ==
    [kind |-> kind, sign |-> sign, coef |-> coef, exp |-> exp]

InvalidDecimal == Dec("invalid", 0, <<"0">>, <<"0">>)

\* decimal.MAX_EMAX = 999999999999999999, the largest adjusted exponent.
MAX_EMAX == [i \in 1..18 |-> "9"]

\* decimal.MIN_ETINY = -1999999999999999997, the smallest exponent.
MIN_ETINY == <<"-", "1">> \o [i \in 1..17 |-> "9"] \o <<"7">>

\* [-+]?\d+ : the exponent of a numeric string, as <<ok, value>>.
ParseExponent(s) ==
    LET signed == s # <<>> /\ Head(s) \in {"-", "+"}
        body == IF signed THEN Tail(s) ELSE s
    IN  IF body # <<>> /\ AllDigits(body)
        THEN <<TRUE, Signed(signed /\ Head(s) = "-", DigitsToInt(body))>>
        ELSE <<FALSE, <<"0">>>>

\* A coefficient and an exponent the constructor holds exactly: the exponent
\* is at least MIN_ETINY and the adjusted exponent at most MAX_EMAX.
Representable(coef, exp) ==
    /\ ~ IntLess(exp, MIN_ETINY)
    /\ ~ IntLess(MAX_EMAX, IntAdd(exp, NatToStr(Len(coef) - 1)))

\* Upper case of a-z throughout a string: the letters of a numeric string
\* (e, inf, infinity, nan, snan) are read in either case.
AsciiUpper(s) == [i \in 1..Len(s) |-> AsciiUpperChar(s[i])]

\* Decimal(s) for a string s: the grammar of numeric strings applied to
\* s.strip().replace("_", ""), letters in either case, digits of any script.
Decimal(s) ==
    LET t == SelectSeq(Strip(s), LAMBDA c : c # "_")
        signed == t # <<>> /\ Head(t) \in {"-", "+"}
        sign == IF signed /\ Head(t) = "-" THEN 1 ELSE 0
        u == AsciiUpper(IF signed THEN Tail(t) ELSE t)
        isNaN(x) == \/ Len(x) >= 3 /\ SubSeq(x, 1, 3) = <<"N","A","N">>
                       /\ AllDigits(SubSeq(x, 4, Len(x)))
                    \/ Len(x) >= 4 /\ SubSeq(x, 1, 4) = <<"S","N","A","N">>
                       /\ AllDigits(SubSeq(x, 5, Len(x)))
        ePos == IndexOf(u, "E")
        mant == IF ePos = 0 THEN u ELSE SubSeq(u, 1, ePos - 1)
        expo == IF ePos = 0 THEN <<TRUE, <<"0">>>>
                ELSE ParseExponent(SubSeq(u, ePos + 1, Len(u)))
        dot  == IndexOf(mant, ".")
        intp == IF dot = 0 THEN mant ELSE SubSeq(mant, 1, dot - 1)
        frac == IF dot = 0 THEN <<>> ELSE SubSeq(mant, dot + 1, Len(mant))
    IN  IF u \in {<<"I","N","F">>, <<"I","N","F","I","N","I","T","Y">>}
        THEN Dec("inf", sign, <<"0">>, <<"0">>)
        ELSE IF isNaN(u) THEN Dec("nan", sign, <<"0">>, <<"0">>)
        ELSE IF /\ AllDigits(intp) /\ AllDigits(frac)
                /\ Len(intp) + Len(frac) > 0
                /\ expo[1]
        THEN LET coef == DigitsToInt(intp \o frac)
                 exp  == IntAdd(expo[2], IntNeg(NatToStr(Len(frac))))
             IN  IF Representable(coef, exp)
                 THEN Dec("finite", sign, coef, exp)
                 ELSE InvalidDecimal
        ELSE InvalidDecimal

\* The comparison price <= 0 in place of price < 0.
LessThanOrEqualZero(d) ==
    CASE d.kind = "nan"    -> "raise"
      [] d.kind = "inf"    -> IF d.sign = 1 THEN "true" ELSE "false"
      [] d.kind = "finite" ->
             IF d.sign = 1 \/ d.coef = <<"0">> THEN "true" ELSE "false"

\* The comparison price < 0: "raise" stands for the InvalidOperation that
\* an ordering comparison with a NaN signals.
LessThanZero(d) ==
    CASE d.kind = "nan"    -> "raise"
      [] d.kind = "inf"    -> IF d.sign = 1 THEN "true" ELSE "false"
      [] d.kind = "finite" ->
             IF d.sign = 1 /\ d.coef # <<"0">> THEN "true" ELSE "false"

-----------------------------------------------------------------------------
(* Request bodies *)

\* Line 13.
required_fields == <<"name", "sku", "price", "warehouse_id", "initial_quantity">>

\* A decoded JSON body: an object (kind "map"), an array of strings
\* (kind "list") or null (kind "null").  "none" marks an idle handler.
MapBody(f)   == [kind |-> "map",  fields |-> f,    items |-> <<>>]
ListBody(xs) == [kind |-> "list", fields |-> <<>>, items |-> xs]
NullBody     == [kind |-> "null", fields |-> <<>>, items |-> <<>>]
NoData       == [kind |-> "none", fields |-> <<>>, items |-> <<>>]

\* The test  f in data  of line 14 ("raise": TypeError, None is not iterable).
Contains(d, f) ==
    CASE d.kind = "map"  -> IF f \in DOMAIN d.fields THEN "true" ELSE "false"
      [] d.kind = "list" -> IF \E i \in 1..Len(d.items) : d.items[i] = f
                            THEN "true" ELSE "false"
      [] OTHER           -> "raise"

\* A check that stops at the first absent key.
MissingFirstOnly(d) ==
    LET all == SelectSeq(required_fields, LAMBDA f : Contains(d, f) = "false")
    IN  IF all = <<>> THEN <<>> ELSE <<Head(all)>>

\* Line 14: missing = [f for f in required_fields if f not in data]
Missing(d) == SelectSeq(required_fields, LAMBDA f : Contains(d, f) = "false")

\* Lines 19-24: "ok", "negative" or "invalid", from the raw price value.
\* data['price'] on a list raises TypeError, caught on line 23.
ConvertPrice(d) ==
    IF d.kind # "map" THEN [result |-> "invalid", value |-> InvalidDecimal]
    ELSE LET dec == Decimal(PyStr(d.fields["price"]))
         IN  IF dec.kind = "invalid"
             THEN [result |-> "invalid", value |-> dec]
             ELSE CASE LessThanZero(dec) = "raise"
                         -> [result |-> "invalid", value |-> dec]
                    [] LessThanZero(dec) = "true"
                         -> [result |-> "negative", value |-> dec]
                    [] LessThanZero(dec) = "false"
                         -> [result |-> "ok", value |-> dec]

-----------------------------------------------------------------------------
(* Exceptions *)

\* An exception: its class and its str().
Raised(type, text) == [type |-> type, text |-> text]

NoException == Raised("", "")

\* type(v).__name__ of a JSON value.
TypeName(v) ==
    CASE v.t = "str"  -> "str"
      [] v.t = "int"  -> "int"
      [] v.t = "bool" -> "bool"
      [] v.t = "null" -> "NoneType"

\* Line 14: f not in data, for data = None.
NotIterable ==
    Raised("TypeError", "argument of type 'NoneType' is not iterable")

\* Lines 38-39: v.strip() for a v that is not a string.
NoStrip(v) ==
    Raised("AttributeError",
           "'" \o TypeName(v) \o "' object has no attribute 'strip'")

-----------------------------------------------------------------------------
(* Responses: jsonify(body), status *)

\* "fields" holds the names joined after "Missing fields: ", "detail" the
\* text joined after "Internal error: ".
Response(status, error, fields, detail, message, id) ==
    [status |-> status, error |-> error, fields |-> fields,
     detail |-> detail, message |-> message, product_id |-> id]

NoResponse        == Response(0, "", <<>>, "", "", 0)
MissingFields(m)  == Response(400, "Missing fields", m, "", "", 0)
NegativePrice     == Response(400, "Price cannot be negative", <<>>, "", "", 0)
InvalidPrice      == Response(400, "Invalid price format", <<>>, "", "", 0)
SkuExists         == Response(409, "SKU already exists", <<>>, "", "", 0)
WarehouseNotFound == Response(404, "Warehouse not found", <<>>, "", "", 0)
Created(id)       ==
    Response(201, "", <<>>, "", "Product created successfully", id)
\* The integrity error answered by the catch-all clause.
IntegrityErrorAs500 == Response(500, "Internal error", <<>>, "", "", 0)

IntegrityError    == Response(400, "Database integrity error", <<>>, "", "", 0)
\* The catch-all clause answering like the integrity clause.
InternalErrorAs400(exc) ==
    Response(400, "Database integrity error", <<>>, "", "", 0)

\* Line 67: "Internal error: " followed by str(e).
InternalError(exc) == Response(500, "Internal error", <<>>, exc.text, "", 0)

-----------------------------------------------------------------------------
(* Storage layer and unit of work *)

\* A Product object / row; id 0 is the unassigned primary key (None).
ProductRow(id, name, sku, pr) ==
    [id |-> id, name |-> name, sku |-> sku, price |-> pr]

\* An Inventory object / row.
InventoryRow(pid, wh, qty) ==
    [product_id |-> pid, warehouse_id |-> wh, quantity |-> qty]

\* db.session: objects added but not flushed, and rows inserted by the open
\* transaction but not committed.
EmptySession ==
    [newProducts |-> {}, newInventory |-> {},
     txProducts |-> {}, txInventory |-> {}]

\* Product.query.filter_by(sku=v).first(): exact comparison of the column
\* with the bound value, over the committed rows and the transaction's own.
FindBySku(rows, v) == {r \in rows : v.t = "str" /\ r.sku = v.s}

\* Warehouse.query.get(v)
WarehouseGet(v) == {w \in Warehouses : v.t = "int" /\ v.n = w}

\* The unique constraint on Product.sku.
UniqueViolation(rows, row) == \E r \in rows : r.sku = row.sku

\* The foreign keys of Inventory.
ForeignKeyViolation(rows, inv) ==
    \/ ~ \E r \in rows : r.id = inv.product_id
    \/ WarehouseGet(inv.warehouse_id) = {}

\* A rollback that undoes the transaction but keeps the added objects.
RollbackKeepsPending(s) ==
    [s EXCEPT !.txProducts = {}, !.txInventory = {}]

\* db.session.rollback()
Rollback(s) == EmptySession

\* A commit that replaces the stored rows of the same name (merge by name).
CommitProductsMerging(rows, s) ==
    {r \in rows : ~ \E n \in s.txProducts : n.name = r.name}
        \cup s.txProducts

\* Line 54: the Product table after db.session.commit(): the committed rows
\* and the rows the transaction inserted.
CommitProducts(rows, s) == rows \cup s.txProducts

\* A commit that runs before the Inventory object is added to the session.
CommitBeforeAdd(s, inv) == s.txInventory

\* Lines 51-54: the Inventory rows db.session.commit() makes durable, the
\* flushed ones and the object added on line 51.
CommitInventory(s, inv) == s.txInventory \cup {inv}

-----------------------------------------------------------------------------
(* create_product, line by line *)

\* Line 27: the value the pre-check looks up.
LookupSku(d) == d.fields["sku"]

\* Line 38: name=data['name'].strip()
ProductName(d) == Strip(d.fields["name"].s)

\* The sku written as received.
ProductSkuRaw(d) == d.fields["sku"].s

\* Line 39: sku=data['sku'].strip().upper()
ProductSku(d) == Upper(Strip(d.fields["sku"].s))

\* Lines 38-39 raise AttributeError unless both values are strings.
HasStrip(d) == d.fields["name"].t = "str" /\ d.fields["sku"].t = "str"

\* The exception of lines 38-39: name is evaluated before sku.
StripError(d) ==
    IF d.fields["name"].t # "str" THEN NoStrip(d.fields["name"])
                                  ELSE NoStrip(d.fields["sku"])

\* The one element of a singleton set.
TheOne(S) == CHOOSE x \in S : TRUE

\* Rows a handler's queries see: the committed ones and its transaction's.
VisibleProducts(p) == products \cup session[p].txProducts

Init ==
    /\ pc = [p \in Procs |-> "idle"]
    /\ data = [p \in Procs |-> NoData]
    /\ price = [p \in Procs |-> InvalidDecimal]
    /\ product = [p \in Procs |-> {}]
    /\ session = [p \in Procs |-> EmptySession]
    /\ e = [p \in Procs |-> NoException]
    /\ response = [p \in Procs |-> NoResponse]
    /\ products = {}
    /\ inventory = {}
    /\ nextId = 1
    /\ calls = 0

\* Line 10: a request arrives and its body is decoded.
GetJson(p, d) ==
    /\ pc[p] = "idle"
    /\ calls < MaxCalls
    /\ calls' = calls + 1
    /\ data' = [data EXCEPT ![p] = d]
    /\ pc' = [pc EXCEPT ![p] = "validate"]
    /\ UNCHANGED <<price, product, session, e, response, products,
                   inventory, nextId>>

\* Lines 12-24: required fields, then the price.
Validate(p) ==
    /\ pc[p] = "validate"
    /\ IF \E i \in 1..Len(required_fields) :
              Contains(data[p], required_fields[i]) = "raise"
       THEN /\ e' = [e EXCEPT ![p] = NotIterable]
            /\ pc' = [pc EXCEPT ![p] = "except_exception"]
            /\ UNCHANGED <<price, response>>
       ELSE IF Missing(data[p]) # <<>>
       THEN /\ response' = [response EXCEPT
                                ![p] = MissingFields(Missing(data[p]))]
            /\ pc' = [pc EXCEPT ![p] = "done"]
            /\ UNCHANGED <<price, e>>
       ELSE LET c == ConvertPrice(data[p])
            IN  CASE c.result = "negative" ->
                       /\ response' = [response EXCEPT ![p] = NegativePrice]
                       /\ pc' = [pc EXCEPT ![p] = "done"]
                       /\ UNCHANGED <<price, e>>
                  [] c.result = "invalid" ->
                       /\ response' = [response EXCEPT ![p] = InvalidPrice]
                       /\ pc' = [pc EXCEPT ![p] = "done"]
                       /\ UNCHANGED <<price, e>>
                  [] c.result = "ok" ->
                       /\ price' = [price EXCEPT ![p] = c.value]
                       /\ pc' = [pc EXCEPT ![p] = "check_sku"]
                       /\ UNCHANGED <<response, e>>
    /\ UNCHANGED <<data, product, session, products, inventory, nextId, calls>>

\* Lines 26-29: the advisory SKU check.
CheckSku(p) ==
    /\ pc[p] = "check_sku"
    /\ IF FindBySku(VisibleProducts(p), LookupSku(data[p])) # {}
       THEN /\ response' = [response EXCEPT ![p] = SkuExists]
            /\ pc' = [pc EXCEPT ![p] = "done"]
       ELSE /\ pc' = [pc EXCEPT ![p] = "check_warehouse"]
            /\ UNCHANGED response
    /\ UNCHANGED <<data, price, product, session, e, products, inventory,
                   nextId, calls>>

\* The handler without the test of line 33.
CheckWarehouseSkipped(p) ==
    /\ pc[p] = "check_warehouse"
    /\ pc' = [pc EXCEPT ![p] = "create_product"]
    /\ UNCHANGED <<data, price, product, session, e, response, products,
                   inventory, nextId, calls>>

\* Lines 31-34: the warehouse check.
CheckWarehouse(p) ==
    /\ pc[p] = "check_warehouse"
    /\ IF WarehouseGet(data[p].fields["warehouse_id"]) = {}
       THEN /\ response' = [response EXCEPT ![p] = WarehouseNotFound]
            /\ pc' = [pc EXCEPT ![p] = "done"]
       ELSE /\ pc' = [pc EXCEPT ![p] = "create_product"]
            /\ UNCHANGED response
    /\ UNCHANGED <<data, price, product, session, e, products, inventory,
                   nextId, calls>>

\* Lines 36-43: build the Product, add it, flush it.  The INSERT is checked
\* against the committed rows; the row stays private to the transaction.
AddProduct(p) ==
    /\ pc[p] = "create_product"
    /\ IF ~ HasStrip(data[p])
       THEN /\ e' = [e EXCEPT ![p] = StripError(data[p])]
            /\ pc' = [pc EXCEPT ![p] = "except_exception"]
            /\ UNCHANGED <<product, session, nextId>>
       ELSE LET obj == ProductRow(0, ProductName(data[p]),
                                  ProductSku(data[p]), price[p])
                row == [obj EXCEPT !.id = nextId]
            IN  IF UniqueViolation(VisibleProducts(p), row)
                THEN /\ product' = [product EXCEPT ![p] = {obj}]
                     /\ session' = [session EXCEPT
                                       ![p].newProducts = @ \cup {obj}]
                     /\ pc' = [pc EXCEPT ![p] = "except_integrity"]
                     /\ UNCHANGED <<nextId, e>>
                ELSE /\ product' = [product EXCEPT ![p] = {row}]
                     /\ session' = [session EXCEPT
                                       ![p].txProducts = @ \cup {row}]
                     /\ nextId' = nextId + 1
                     /\ pc' = [pc EXCEPT ![p] = "create_inventory"]
                     /\ UNCHANGED e
    /\ UNCHANGED <<data, price, response, products, inventory, calls>>

\* An Inventory whose quantity is clamped at zero.
NewInventoryClamped(p) ==
    InventoryRow(TheOne(product[p]).id, data[p].fields["warehouse_id"],
                 IF data[p].fields["initial_quantity"].n < 0
                 THEN JInt(0) ELSE data[p].fields["initial_quantity"])

\* Lines 46-50: Inventory(product_id, warehouse_id, quantity)
NewInventory(p) ==
    InventoryRow(TheOne(product[p]).id, data[p].fields["warehouse_id"],
                 data[p].fields["initial_quantity"])

\* Lines 45-59: build the Inventory, add it, commit, answer 201.  commit()
\* flushes the Inventory INSERT, then the storage engine validates the
\* transaction against the rows committed meanwhile.
AddInventory(p) ==
    /\ pc[p] = "create_inventory"
    /\ LET inv == NewInventory(p)
       IN  IF \/ ForeignKeyViolation(VisibleProducts(p), inv)
              \/ \E row \in session[p].txProducts :
                     UniqueViolation(products, row)
           THEN /\ session' = [session EXCEPT
                                  ![p].newInventory = @ \cup {inv}]
                /\ pc' = [pc EXCEPT ![p] = "except_integrity"]
                /\ UNCHANGED <<products, inventory, response>>
           ELSE /\ products' = CommitProducts(products, session[p])
                /\ inventory' = inventory \cup CommitInventory(session[p], inv)
                /\ session' = [session EXCEPT ![p] = EmptySession]
                /\ response' = [response EXCEPT
                                   ![p] = Created(TheOne(product[p]).id)]
                /\ pc' = [pc EXCEPT ![p] = "done"]
    /\ UNCHANGED <<data, price, product, e, nextId, calls>>

\* The handler of lines 61-63 without its rollback.
HandleIntegrityErrorNoRollback(p) ==
    /\ pc[p] = "except_integrity"
    /\ response' = [response EXCEPT ![p] = IntegrityError]
    /\ pc' = [pc EXCEPT ![p] = "done"]
    /\ UNCHANGED <<data, price, product, session, e, products, inventory,
                   nextId, calls>>

\* The handler of lines 61-63 rolling back one session shared by all handlers.
HandleIntegrityErrorSharedSession(p) ==
    /\ pc[p] = "except_integrity"
    /\ session' = [q \in Procs |-> EmptySession]
    /\ response' = [response EXCEPT ![p] = IntegrityError]
    /\ pc' = [pc EXCEPT ![p] = "done"]
    /\ UNCHANGED <<data, price, product, e, products, inventory, nextId,
                   calls>>

\* Lines 61-63.
HandleIntegrityError(p) ==
    /\ pc[p] = "except_integrity"
    /\ session' = [session EXCEPT ![p] = Rollback(@)]
    /\ response' = [response EXCEPT ![p] = IntegrityError]
    /\ pc' = [pc EXCEPT ![p] = "done"]
    /\ UNCHANGED <<data, price, product, e, products, inventory, nextId,
                   calls>>

\* Lines 65-67.
HandleException(p) ==
    /\ pc[p] = "except_exception"
    /\ session' = [session EXCEPT ![p] = Rollback(@)]
    /\ response' = [response EXCEPT ![p] = InternalError(e[p])]
    /\ pc' = [pc EXCEPT ![p] = "done"]
    /\ UNCHANGED <<data, price, product, e, products, inventory, nextId,
                   calls>>

\* The response is sent; the handler is free for the next request.
Return(p) ==
    /\ pc[p] = "done"
    /\ pc' = [pc EXCEPT ![p] = "idle"]
    /\ data' = [data EXCEPT ![p] = NoData]
    /\ price' = [price EXCEPT ![p] = InvalidDecimal]
    /\ product' = [product EXCEPT ![p] = {}]
    /\ e' = [e EXCEPT ![p] = NoException]
    /\ response' = [response EXCEPT ![p] = NoResponse]
    /\ UNCHANGED <<session, products, inventory, nextId, calls>>

-----------------------------------------------------------------------------
(* The requests sent *)

Widget    == <<"W","i","d","g","e","t">>
SkuW1     == <<"W","-","1">>
SkuW1Low  == <<"w","-","1">>
SkuW1Pad  == <<" ","W","-","1"," ">>
SkuX2     == <<"X","2">>
\* w-1 between a form feed (U+000C) and a unit separator (U+001F).
SkuW1Feed == <<"\f","w","-","1","">>
\* Cafe with an acute accent, between a line tabulation (U+000B) and a next
\* line (U+0085).
Cafe      == <<"","C","a","f","é","">>
\* 5 as an Extended Arabic-Indic digit (U+06F5), between a no-break space
\* (U+00A0) and a form feed.
PaddedFive == <<" ","۵","\f">>

\* A complete body.
Body(name, sku, pr, wh, qty) ==
    MapBody([k \in {"name", "sku", "price", "warehouse_id", "initial_quantity"}
               |-> CASE k = "name" -> name
                     [] k = "sku" -> sku
                     [] k = "price" -> pr
                     [] k = "warehouse_id" -> wh
                     [] k = "initial_quantity" -> qty])

\* The body d without the keys in S.
Without(d, S) ==
    MapBody([k \in (DOMAIN d.fields) \ S |-> d.fields[k]])

BaseBody == Body(JStr(Widget), JStr(SkuW1), JStr(<<"1","9",".","9","9">>),
                 JInt(1), JInt(50))

\* Price values: strings, numbers and values of the wrong type; -5 is also
\* written with a fullwidth digit (U+FF15).
PriceValues ==
    { JStr(<<"1","9",".","9","9">>), JStr(<<"0">>), JStr(<<"-","5">>),
      JStr(<<"-","0",".","0">>), JStr(<<" ","7"," ">>), JStr(<<"1","e","2">>),
      JStr(<<"a","b","c">>), JStr(<<>>), JStr(<<"1",".","2",".","3">>),
      JStr(<<"N","a","N">>), JStr(<<".">>),
      JStr(<<"-","U+FF15">>),
      JInt(0), JInt(12), JInt(-3), JNull, JBool(TRUE) }

\* Bodies that vary sku, price, warehouse and quantity together.
CrossBodies ==
    { Body(JStr(Widget), JStr(sk), pr, JInt(wh), JInt(q)) :
        sk \in {SkuW1, SkuW1Low, SkuW1Pad, SkuX2},
        pr \in {JStr(<<"1","9",".","9","9">>), JStr(<<"-","5">>)},
        wh \in {1, 9},
        q  \in {50, -1} }

\* Bodies that vary the price alone.
PriceBodies ==
    { Body(JStr(Widget), JStr(SkuX2), pr, JInt(2), JInt(0)) :
        pr \in PriceValues }

\* Bodies whose name or sku is blank or not a string.
TextBodies ==
    { Body(nm, sk, JInt(5), JInt(1), JInt(3)) :
        nm \in {JStr(Widget), JStr(<<" ">>), JInt(7)},
        sk \in {JStr(SkuW1Low), JStr(<<>>), JNull} }

\* Bodies with required keys absent.
PartialBodies ==
    { Without(BaseBody, S) : S \in (SUBSET {"name", "sku", "price",
                                            "warehouse_id",
                                            "initial_quantity"}) \ {{}} }

\* Bodies whose strings hold whitespace, letters and digits outside ASCII;
\* the second sku is sharp s (U+00DF), a with macron (U+0101), micro sign
\* (U+00B5), the third its upper case: S, S, U+0100, Greek capital mu.
UnicodeBodies ==
    { Body(JStr(Cafe), JStr(sk), JStr(PaddedFive), JInt(1), JInt(3)) :
        sk \in {SkuW1Feed, <<"ß","U+0101","µ">>,
                <<"S","S","U+0100","Μ">>} }

\* Bodies that are not objects.
OtherBodies ==
    { NullBody, ListBody(<<>>), ListBody(<<"name", "price">>),
      ListBody(required_fields) }

Requests ==
    CrossBodies \cup PriceBodies \cup TextBodies \cup PartialBodies
                \cup UnicodeBodies \cup OtherBodies

-----------------------------------------------------------------------------

\* The requests sent concurrently: every sku and warehouse, a negative
\* quantity, a blank and a non-string text, a sku padded with control
\* characters, and one body for each early failure.
RaceRequests ==
    { Body(JStr(Widget), JStr(sk), JStr(<<"1","9",".","9","9">>), JInt(wh),
           JInt(50)) : sk \in {SkuW1, SkuW1Low, SkuW1Pad, SkuX2},
                       wh \in {1, 9} }
    \cup { Body(JStr(Widget), JStr(SkuX2), JInt(5), JInt(2), JInt(-1)),
           Body(JInt(7), JStr(SkuW1Low), JInt(5), JInt(1), JInt(3)),
           Body(JStr(<<" ">>), JNull, JInt(5), JInt(1), JInt(3)),
           Body(JStr(Widget), JStr(SkuW1), JStr(<<"-","5">>), JInt(1), JInt(50)),
           Body(JStr(Cafe), JStr(SkuW1Feed), JStr(PaddedFive), JInt(1), JInt(3)),
           Without(BaseBody, {"sku", "price"}),
           NullBody }

\* One step of handler p.
Step(p) ==
    \/ Validate(p)
    \/ CheckSku(p)
    \/ CheckWarehouse(p)
    \/ AddProduct(p)
    \/ AddInventory(p)
    \/ HandleIntegrityError(p)
    \/ HandleException(p)
    \/ Return(p)

\* Concurrent handlers.
Next ==
    \E p \in Procs :
        \/ \E d \in RaceRequests : GetJson(p, d)
        \/ Step(p)

Spec == Init /\ [][Next]_vars

\* No handler other than p is serving a request.
Alone(p) == \A q \in Procs \ {p} : pc[q] = "idle"

\* One request at a time, over all the request bodies.
SeqNext ==
    \E p \in Procs :
        \/ Alone(p) /\ \E d \in Requests : GetJson(p, d)
        \/ Alone(p) /\ Validate(p)
        \/ Alone(p) /\ CheckSku(p)
        \/ Alone(p) /\ CheckWarehouse(p)
        \/ Alone(p) /\ AddProduct(p)
        \/ Alone(p) /\ AddInventory(p)
        \/ Alone(p) /\ HandleIntegrityError(p)
        \/ Alone(p) /\ HandleException(p)
        \/ Alone(p) /\ Return(p)

SeqSpec == Init /\ [][SeqNext]_vars

-----------------------------------------------------------------------------
(* Properties *)

\* The sku normalization the specification prescribes (trim, uppercase).
Normalized(sku) == Upper(Strip(sku))

\* The id of the Product object of handler p, 0 when it has none.
OwnId(p) == IF product[p] = {} THEN 0 ELSE TheOne(product[p]).id

\* Handler p has returned a response other than 201.
Failed(p) == pc[p] = "done" /\ response[p].status # 201

\* C1 - Atomicity: in every committed state each Product has an
\* InventoryRecord and each InventoryRecord a Product, and a handler whose
\* flush succeeded but whose commit failed leaves no Product row behind.
C1_Atomicity ==
    /\ \A r \in products : \E i \in inventory : i.product_id = r.id
    /\ \A i \in inventory : \E r \in products : r.id = i.product_id
    /\ \A p \in Procs :
          (pc[p] = "except_integrity" \/ Failed(p))
             => /\ ~ \E r \in products : r.id = OwnId(p)
                /\ ~ \E i \in inventory : i.product_id = OwnId(p)

\* C1 witness: a handler flushed its Product, failed at commit, answered, and
\* the row is not committed while another product is.
C1_Witness ==
    \E p \in Procs :
        /\ pc[p] = "done"
        /\ response[p].status = 400
        /\ OwnId(p) # 0
        /\ products # {}
        /\ ~ \E r \in products : r.id = OwnId(p)

\* C2 - SKU uniqueness: no two committed Products have the same sku after
\* trim and uppercase, under every interleaving.
C2_UniqueSku ==
    \A r1, r2 \in products :
        Normalized(r1.sku) = Normalized(r2.sku) => r1 = r2

\* C2 witness: two handlers with the same normalized sku both flushed (so both
\* passed the pre-check before either committed); one committed, the other
\* was refused.
C2_Witness ==
    \E p, q \in Procs :
        /\ p # q /\ pc[p] = "done" /\ pc[q] = "done"
        /\ response[p].status = 201 /\ response[q].status = 400
        /\ OwnId(q) # 0
        /\ data[p].fields["sku"] # data[q].fields["sku"]
        /\ Normalized(data[p].fields["sku"].s)
             = Normalized(data[q].fields["sku"].s)

\* C4 - No partial writes on failure: a step of a handler that does not end
\* in a 201 response leaves the committed tables unchanged, and a handler
\* that has answered 400, 404, 409 or 500 has an empty unit of work (what it
\* added was rolled back before the response).
C4_NoPartialWrites ==
    /\ [](\A p \in Procs :
            Failed(p) => /\ response[p].status \in {400, 404, 409, 500}
                         /\ session[p] = EmptySession
                         /\ ~ \E r \in products : r.id = OwnId(p))
    /\ [][\A p \in Procs :
            (pc'[p] # pc[p] /\ ~ (pc'[p] = "done" /\ response'[p].status = 201))
               => products' = products /\ inventory' = inventory]_vars

\* C4 witness: a handler added a Product, failed at flush, rolled back and
\* answered 400 while the committed tables hold another handler's rows.
C4_Witness ==
    \E p \in Procs :
        /\ Failed(p)
        /\ response[p].error = "Database integrity error"
        /\ product[p] # {} /\ OwnId(p) = 0
        /\ session[p] = EmptySession
        /\ products # {} /\ inventory # {}

\* The body of handler p is an object with all five required keys.
AllFieldsPresent(p) ==
    /\ data[p].kind = "map"
    /\ {"name", "sku", "price", "warehouse_id", "initial_quantity"}
          \subseteq DOMAIN data[p].fields

\* The price of the request of handler p parses to a decimal >= 0.
PriceAccepted(p) == ConvertPrice(data[p]).result = "ok"

\* Another handler's committed Product carries the normalized sku of the
\* request of handler p.
SkuTaken(p) ==
    /\ data[p].fields["sku"].t = "str"
    /\ \E r \in products :
          /\ r.id # OwnId(p)
          /\ Normalized(r.sku) = Normalized(data[p].fields["sku"].s)

\* The warehouse id of the request of handler p names a Warehouse row.
WarehouseExists(p) ==
    /\ data[p].fields["warehouse_id"].t = "int"
    /\ data[p].fields["warehouse_id"].n \in Warehouses

\* Handler p answered 201 with the id of a committed Product whose one
\* InventoryRecord carries the request's warehouse id and raw quantity.
Succeeded(p) ==
    /\ response[p].status = 201
    /\ response[p].product_id = OwnId(p)
    /\ Cardinality({r \in products : r.id = response[p].product_id}) = 1
    /\ Cardinality({i \in inventory :
                       i.product_id = response[p].product_id}) = 1
    /\ \A i \in inventory :
          i.product_id = response[p].product_id
             => /\ i.warehouse_id = data[p].fields["warehouse_id"]
                /\ i.quantity = data[p].fields["initial_quantity"]

\* The step by which handler p answers 201 adds exactly one Product row and
\* exactly one InventoryRecord row.
AddsOneRowEach(p) ==
    (pc[p] # "done" /\ pc'[p] = "done" /\ response'[p].status = 201)
       => /\ \E r \in products' :
               r \notin products /\ products' = products \cup {r}
          /\ \E i \in inventory' :
               i \notin inventory /\ inventory' = inventory \cup {i}

\* C3 as stated - every request with all required fields, a parseable price
\* >= 0, a sku not present among Products and an existing warehouse is
\* answered 201 with one Product and one InventoryRecord.
C3_AsStated ==
    \A p \in Procs :
        (/\ pc[p] = "done" /\ AllFieldsPresent(p) /\ PriceAccepted(p)
         /\ ~ SkuTaken(p) /\ WarehouseExists(p))
           => Succeeded(p)

\* C3 amended - every request with all required fields, string values for
\* name and sku, a parseable price >= 0, a sku not present among Products
\* and an existing warehouse is answered 201; exactly one Product row and
\* one InventoryRecord row are added; the returned id is the new Product's,
\* the InventoryRecord references it and carries the supplied warehouse id
\* and the raw quantity.
C3_Success ==
    /\ [](\A p \in Procs :
            (/\ pc[p] = "done" /\ AllFieldsPresent(p) /\ PriceAccepted(p)
             /\ data[p].fields["name"].t = "str"
             /\ data[p].fields["sku"].t = "str"
             /\ ~ SkuTaken(p) /\ WarehouseExists(p))
               => Succeeded(p))
    /\ [][\A p \in Procs : AddsOneRowEach(p)]_vars

\* C3 witness: a request with a negative quantity was answered 201 and its
\* InventoryRecord is committed with that quantity.
C3_Witness ==
    \E p \in Procs :
        /\ pc[p] = "done" /\ response[p].status = 201
        /\ data[p].fields["initial_quantity"].n < 0
        /\ \E i \in inventory :
              i.product_id = response[p].product_id /\ i.quantity.n < 0

\* C5 - the pre-check looks up the normalized sku: whenever the pre-check
\* step runs for a request whose normalized sku is the sku of a committed
\* Product, it answers 409 "SKU already exists".
C5_PrecheckNormalized ==
    [][\A p \in Procs :
         (/\ pc[p] = "check_sku" /\ pc'[p] # "check_sku"
          /\ data[p].fields["sku"].t = "str"
          /\ \E r \in products :
                r.sku = Normalized(data[p].fields["sku"].s))
            => /\ pc'[p] = "done"
               /\ response'[p].status = 409
               /\ response'[p].error = "SKU already exists"
               /\ products' = products]_vars

\* C6 - with a Product committed before the request, a request (past the
\* field and price checks) whose sku is a case/whitespace variant of its sku
\* is answered with a conflict (409, or the storage-level 400) and adds
\* nothing.
C6_VariantConflict ==
    \A p \in Procs :
        (/\ pc[p] = "done" /\ AllFieldsPresent(p) /\ PriceAccepted(p)
         /\ SkuTaken(p))
           => /\ \/ response[p].status = 409
                 \/ /\ response[p].status = 400
                    /\ response[p].error = "Database integrity error"
              /\ ~ \E r \in products : r.id = OwnId(p)
              /\ ~ \E i \in inventory : i.product_id = OwnId(p)

\* C7 - race on one sku: of two handlers that both built a Product with the
\* same sku at most one answers 201; the other answers 400 "Database
\* integrity error" with its transaction rolled back, exactly one Product
\* with that sku and one InventoryRecord for it are committed, and the
\* failed handler goes from the error straight to its response (no retry).
C7_Race ==
    /\ [](\A p, q \in Procs :
            (/\ p # q /\ pc[p] = "done" /\ pc[q] = "done"
             /\ product[p] # {} /\ product[q] # {}
             /\ TheOne(product[p]).sku = TheOne(product[q]).sku)
               => /\ ~ (response[p].status = 201 /\ response[q].status = 201)
                  /\ response[p].status = 201
                       => /\ response[q].status = 400
                          /\ response[q].error = "Database integrity error"
                          /\ session[q] = EmptySession
                          /\ Cardinality({r \in products :
                                 r.sku = TheOne(product[p]).sku}) = 1
                          /\ \A r \in products :
                                 r.sku = TheOne(product[p]).sku
                                    => r.id = OwnId(p)
                          /\ Cardinality({i \in inventory :
                                 i.product_id = OwnId(p)}) = 1
                          /\ ~ \E i \in inventory : i.product_id = OwnId(q))
    /\ [][\A p \in Procs :
            (pc[p] = "except_integrity" /\ pc'[p] # pc[p])
               => pc'[p] = "done"]_vars

\* C7 witness: both handlers were sent the same sku, the one that flushed
\* first lost the race at commit, and the other answered 201.
C7_Witness ==
    \E p, q \in Procs :
        /\ p # q /\ pc[p] = "done" /\ pc[q] = "done"
        /\ response[p].status = 201
        /\ response[q].error = "Database integrity error"
        /\ OwnId(q) # 0 /\ OwnId(q) < OwnId(p)
        /\ data[p].fields["sku"] = data[q].fields["sku"]

\* C8 - a request that reaches the warehouse check with a warehouse id that
\* matches no Warehouse row is answered 404 "Warehouse not found": nothing
\* is built, added or committed.
C8_WarehouseNotFound ==
    [][\A p \in Procs :
         (/\ pc[p] = "check_warehouse" /\ pc'[p] # pc[p]
          /\ ~ WarehouseExists(p))
            => /\ pc'[p] = "done"
               /\ response'[p].status = 404
               /\ response'[p].error = "Warehouse not found"
               /\ product'[p] = {}
               /\ session'[p] = EmptySession
               /\ products' = products /\ inventory' = inventory
               /\ nextId' = nextId]_vars

\* C8 witness: a handler answered 404 while a Product is committed.
C8_Witness ==
    \E p \in Procs :
        /\ pc[p] = "done" /\ response[p].status = 404
        /\ ~ WarehouseExists(p)
        /\ products # {}

\* The required keys absent from the body d.
AbsentKeys(d) ==
    {"name", "sku", "price", "warehouse_id", "initial_quantity"}
        \ DOMAIN d.fields

\* C9 - a body that is an object lacking one or more required keys is
\* answered 400 "Missing fields" listing exactly the absent keys, each once,
\* straight from validation: no lookup, no insert.
C9_MissingFields ==
    [][\A p \in Procs :
         (/\ pc[p] = "validate" /\ pc'[p] # pc[p]
          /\ data[p].kind = "map" /\ AbsentKeys(data[p]) # {})
            => /\ pc'[p] = "done"
               /\ response'[p].status = 400
               /\ response'[p].error = "Missing fields"
               /\ {response'[p].fields[i] :
                      i \in 1..Len(response'[p].fields)}
                    = AbsentKeys(data[p])
               /\ Len(response'[p].fields) = Cardinality(AbsentKeys(data[p]))
               /\ product'[p] = {} /\ session'[p] = EmptySession
               /\ products' = products /\ inventory' = inventory]_vars

\* C9 witness: a response that lists several missing fields.
C9_Witness ==
    \E p \in Procs :
        /\ pc[p] = "done" /\ data[p].kind = "map"
        /\ response[p].error = "Missing fields"
        /\ Len(response[p].fields) >= 2
        /\ Len(response[p].fields) < 5

\* Price inputs by what they are, independently of the parser.
NonNumericPrices ==
    { JStr(<<"a","b","c">>), JStr(<<>>), JStr(<<"1",".","2",".","3">>),
      JStr(<<"N","a","N">>), JStr(<<".">>) }
WrongTypedPrices == { JNull, JBool(TRUE) }
NegativePrices   == { JStr(<<"-","5">>), JStr(<<"-","U+FF15">>), JInt(-3) }
ZeroPrices       == { JStr(<<"0">>), JStr(<<"-","0",".","0">>), JInt(0) }

\* C10 - with all required fields present, a non-numeric or wrong-typed
\* price is answered 400 "Invalid price format", a negative one the distinct
\* 400 "Price cannot be negative", and a zero price passes on to the sku
\* check.
C10_PriceClasses ==
    [][\A p \in Procs :
         (pc[p] = "validate" /\ pc'[p] # pc[p] /\ AllFieldsPresent(p))
            => LET v == data[p].fields["price"]
               IN  /\ v \in NonNumericPrices \cup WrongTypedPrices
                        => /\ pc'[p] = "done"
                           /\ response'[p].status = 400
                           /\ response'[p].error = "Invalid price format"
                   /\ v \in NegativePrices
                        => /\ pc'[p] = "done"
                           /\ response'[p].status = 400
                           /\ response'[p].error = "Price cannot be negative"
                   /\ v \in ZeroPrices
                        => /\ pc'[p] = "check_sku"
                           /\ price'[p].kind = "finite"
                           /\ price'[p].coef = <<"0">>]_vars

\* C10 witness: a zero price reached the sku check.
C10_Witness ==
    \E p \in Procs :
        /\ pc[p] = "check_sku"
        /\ data[p].fields["price"] \in ZeroPrices
        /\ price[p].coef = <<"0">>

\* The request of handler p passes every check on its own.
ValidRequest(p) ==
    /\ AllFieldsPresent(p) /\ PriceAccepted(p)
    /\ data[p].fields["name"].t = "str"
    /\ data[p].fields["sku"].t = "str"
    /\ WarehouseExists(p)

\* C11 - non-interference: two concurrent valid requests with different
\* normalized skus and existing warehouses are both answered 201 with both
\* products and inventory records committed, under every interleaving; a
\* step of one handler (flush, commit or rollback) leaves the other
\* handler's unit of work and Product untouched and commits only its own
\* rows.
C11_NonInterference ==
    /\ [](\A p, q \in Procs :
            (/\ p # q /\ pc[p] = "done" /\ pc[q] = "done"
             /\ ValidRequest(p) /\ ValidRequest(q)
             /\ Normalized(data[p].fields["sku"].s)
                  # Normalized(data[q].fields["sku"].s)
             /\ ~ SkuTaken(p) /\ ~ SkuTaken(q))
               => /\ Succeeded(p) /\ Succeeded(q)
                  /\ OwnId(p) # OwnId(q))
    /\ [][\A p, q \in Procs :
            (p # q /\ pc'[p] # pc[p])
               => /\ session'[q] = session[q]
                  /\ product'[q] = product[q]
                  /\ (products' \ products) \subseteq session[p].txProducts
                  /\ \A i \in inventory' \ inventory :
                        i.product_id = OwnId(p)
                  /\ products \subseteq products'
                  /\ inventory \subseteq inventory']_vars

\* C11 witness: handler q flushed its Product first, handler p then flushed
\* and committed another sku, and q's row is still pending in q's unit of
\* work, neither committed nor discarded.
C11_Witness ==
    \E p, q \in Procs :
        /\ p # q
        /\ pc[p] = "done" /\ response[p].status = 201
        /\ pc[q] = "create_inventory"
        /\ OwnId(q) # 0 /\ OwnId(q) < OwnId(p)
        /\ session[q].txProducts = product[q]
        /\ ~ \E r \in products : r.id = OwnId(q)
        /\ TheOne(product[p]).sku # TheOne(product[q]).sku

\* C12 - short-circuit order: for a request that violates several checks
\* the response is that of the earliest failing step in the order field
\* presence, price, sku uniqueness, warehouse existence; a response from one
\* of these steps means no Product was built or added.
C12_ShortCircuit ==
    \A p \in Procs :
        (pc[p] = "done" /\ data[p].kind = "map")
           => /\ AbsentKeys(data[p]) # {}
                   => /\ response[p].error = "Missing fields"
                      /\ product[p] = {}
              /\ (AllFieldsPresent(p) /\ ~ PriceAccepted(p))
                   => /\ response[p].error \in {"Invalid price format",
                                                 "Price cannot be negative"}
                      /\ product[p] = {}
              /\ (/\ AllFieldsPresent(p) /\ PriceAccepted(p)
                  /\ SkuTaken(p) /\ ~ WarehouseExists(p))
                   => /\ response[p].status = 409
                      /\ response[p].error = "SKU already exists"
                      /\ product[p] = {}
              /\ (/\ AllFieldsPresent(p) /\ PriceAccepted(p)
                  /\ ~ SkuTaken(p) /\ ~ WarehouseExists(p))
                   => /\ response[p].status = 404
                      /\ product[p] = {}

\* A response has been produced for handler p.
Responded(p) == response[p].status # 0

\* C13 as stated - every failure that is not a storage integrity error,
\* a body that is not a key-value map included, is answered 500.
C13_AsStated ==
    \A p \in Procs :
        (pc[p] = "done" /\ data[p].kind # "map")
           => /\ response[p].status = 500
              /\ response[p].error = "Internal error"

\* C13 amended - every invocation ends with exactly one structured response
\* whose status is 201, 400, 404, 409 or 500, set when the handler finishes
\* and not before; a null body and a name or sku that is not a string raise
\* inside the handler, the catch-all clause rolls back and answers 500
\* "Internal error" followed by the text of the exception, which no other
\* response carries; a body that is an array is answered 400 ("Missing
\* fields", or "Invalid price format" when it holds all five key names).
C13_StructuredResponse ==
    /\ [](\A p \in Procs :
            /\ Responded(p) <=> pc[p] = "done"
            /\ pc[p] = "done"
                 => /\ response[p].status \in {201, 400, 404, 409, 500}
                    /\ response[p].status = 500
                         => /\ response[p].error = "Internal error"
                            /\ response[p].detail # ""
                            /\ session[p] = EmptySession
                    /\ response[p].status # 500 => response[p].detail = ""
                    /\ data[p].kind = "null"
                         => /\ response[p].status = 500
                            /\ response[p].detail
                                 = "argument of type 'NoneType' is not iterable"
                    /\ data[p].kind = "list"
                         => /\ response[p].status = 400
                            /\ response[p].error
                                 = IF \A i \in 1..Len(required_fields) :
                                        \E j \in 1..Len(data[p].items) :
                                           data[p].items[j] = required_fields[i]
                                   THEN "Invalid price format"
                                   ELSE "Missing fields")
    /\ [][\A p \in Procs :
            /\ (/\ pc[p] = "create_product" /\ pc'[p] # pc[p]
                /\ \/ data[p].fields["name"].t # "str"
                   \/ data[p].fields["sku"].t # "str")
                  => pc'[p] = "except_exception"
            /\ (pc[p] = "except_exception" /\ pc'[p] # pc[p])
                  => /\ pc'[p] = "done"
                     /\ response'[p].status = 500
                     /\ response'[p].error = "Internal error"
                     /\ session'[p] = EmptySession
                     /\ products' = products /\ inventory' = inventory
            /\ (pc[p] = "done" /\ pc'[p] # pc[p]) => pc'[p] = "idle"]_vars

\* C13 witness: a request whose name is not a string passed all four checks,
\* raised at the construction of the Product and was answered 500 with the
\* text of the AttributeError.
C13_Witness ==
    \E p \in Procs :
        /\ pc[p] = "done" /\ response[p].status = 500
        /\ data[p].kind = "map"
        /\ AllFieldsPresent(p) /\ PriceAccepted(p) /\ WarehouseExists(p)
        /\ data[p].fields["name"].t # "str"
        /\ response[p].detail = "'int' object has no attribute 'strip'"
        /\ product[p] = {}

\* C14 - frame: every committed Product and InventoryRecord stays, field
\* for field; the tables change only in the step that answers 201, which
\* adds exactly one new row, with a new id, to each; the Warehouse rows are
\* a fixed set no step writes.
C14_Frame ==
    [][/\ products \subseteq products'
       /\ inventory \subseteq inventory'
       /\ (products' # products \/ inventory' # inventory)
            => \E p \in Procs :
                  /\ pc[p] # "done" /\ pc'[p] = "done"
                  /\ response'[p].status = 201
       /\ \A p \in Procs :
            (pc[p] # "done" /\ pc'[p] = "done" /\ response'[p].status = 201)
               => /\ Cardinality(products') = Cardinality(products) + 1
                  /\ Cardinality(inventory') = Cardinality(inventory) + 1
                  /\ \A r \in products' \ products :
                        ~ \E o \in products : o.id = r.id
       /\ \A i \in inventory' :
            WarehouseGet(i.warehouse_id) # {}]_vars

\* C14 witness: a second Product was committed next to an earlier one, each
\* with its InventoryRecord.
C14_Witness ==
    /\ Cardinality(products) >= 2
    /\ Cardinality(inventory) >= 2
    /\ \E p \in Procs :
          /\ pc[p] = "done" /\ response[p].status = 201
          /\ \E r \in products : r.id < response[p].product_id

\* C15 - well-formed products: every committed Product has a non-empty
\* name, a non-empty sku that is a fixed point of trim and uppercase, and a
\* price >= 0.
C15_WellFormed ==
    \A r \in products :
        /\ r.name # <<>>
        /\ r.sku # <<>>
        /\ Normalized(r.sku) = r.sku
        /\ r.price.kind \in {"finite", "inf"}
        /\ ~ (/\ r.price.sign = 1
              /\ (r.price.kind = "inf" \/ r.price.coef # <<"0">>))

\* C16 - clean unit of work on return: a handler that has returned, with
\* any status, holds no pending Product or InventoryRecord, and a commit
\* persists only the Product and InventoryRecord built by the invocation
\* that commits.
C16_CleanSession ==
    /\ [](\A p \in Procs :
            pc[p] \in {"done", "idle", "validate", "check_sku",
                       "check_warehouse", "create_product"}
               => session[p] = EmptySession)
    /\ [][\A p \in Procs :
            (pc[p] # "done" /\ pc'[p] = "done" /\ response'[p].status = 201)
               => /\ products' \ products = product[p]
                  /\ \A i \in inventory' \ inventory :
                        /\ i.product_id = OwnId(p)
                        /\ i.warehouse_id = data[p].fields["warehouse_id"]
                        /\ i.quantity = data[p].fields["initial_quantity"]]_vars

\* C16 witness: handler q flushed a Product, was refused at commit, rolled
\* back and returned; handler p committed a later invocation's Product
\* afterwards, and q's row is not among the committed ones.
C16_Witness ==
    \E p, q \in Procs :
        /\ p # q
        /\ pc[p] = "done" /\ response[p].status = 201
        /\ session[p] = EmptySession
        /\ pc[q] = "done" /\ response[q].status = 400
        /\ response[q].error = "Database integrity error"
        /\ session[q] = EmptySession
        /\ OwnId(q) # 0 /\ OwnId(p) > OwnId(q)
        /\ Cardinality(products) = 2
        /\ ~ \E r \in products : r.id = OwnId(q)

====
